---- MODULE Spec2Model ----
(***************************************************************************)
(* Transcript-analysis engine of the hotel-booking voice-agent evaluator   *)
(* (anticipatory/hotel_eval/booking): booking-number validation and        *)
(* extraction, confirmation detection and conversation-stage               *)
(* classification, applied to a transcript that grows one utterance at a   *)
(* time.  Texts are TLA+ strings; a character is a string of length 1.     *)
(***************************************************************************)
EXTENDS Integers, Sequences, FiniteSets, TLC

(***************************************************************************)
(* Characters and the str methods the code uses                            *)
(***************************************************************************)
ALPHA_UPPER == <<"A","B","C","D","E","F","G","H","I","J","K","L","M",
                 "N","O","P","Q","R","S","T","U","V","W","X","Y","Z">>
ALPHA_LOWER == <<"a","b","c","d","e","f","g","h","i","j","k","l","m",
                 "n","o","p","q","r","s","t","u","v","w","x","y","z">>
UpperChars == {ALPHA_UPPER[i] : i \in DOMAIN ALPHA_UPPER}
LowerChars == {ALPHA_LOWER[i] : i \in DOMAIN ALPHA_LOWER}
DigitChars == {"0","1","2","3","4","5","6","7","8","9"}
LetterChars == UpperChars \cup LowerChars
\* \s of the re module, and the characters str.strip() removes
SpaceChars == {" ", "\t", "\n", "\r"}
\* \w of the re module
WordChars == LetterChars \cup DigitChars \cup {"_"}

LowerOf == [c \in UpperChars |-> ALPHA_LOWER[CHOOSE i \in DOMAIN ALPHA_UPPER : ALPHA_UPPER[i] = c]]
UpperOf == [c \in LowerChars |-> ALPHA_UPPER[CHOOSE i \in DOMAIN ALPHA_LOWER : ALPHA_LOWER[i] = c]]
ToLowerCh(c) == IF c \in UpperChars THEN LowerOf[c] ELSE c
ToUpperCh(c) == IF c \in LowerChars THEN UpperOf[c] ELSE c

CharAt(t, i) == SubSeq(t, i, i)

\* a local variable: v is computed, once, and F uses its value
With(v, F(_)) == CHOOSE result \in {F(value) : value \in {v}} : TRUE

\* "".join(pieces[lo..hi]), by halves
RECURSIVE ConcatRange(_, _, _)
ConcatRange(pieces, lo, hi) ==
    IF lo > hi THEN ""
    ELSE IF lo = hi THEN pieces[lo]
    ELSE LET mid == (lo + hi) \div 2
         IN  ConcatRange(pieces, lo, mid) \o ConcatRange(pieces, mid + 1, hi)

str_concat(pieces) == ConcatRange(pieces, 1, Len(pieces))

str_lower(t) == str_concat([i \in 1..Len(t) |-> ToLowerCh(CharAt(t, i))])
str_upper(t) == str_concat([i \in 1..Len(t) |-> ToUpperCh(CharAt(t, i))])

\* str.strip(): from the first to the last non-space character
str_strip(t) ==
    With({i \in 1..Len(t) : CharAt(t, i) \notin SpaceChars}, LAMBDA kept :
        IF kept = {} THEN ""
        ELSE SubSeq(t, CHOOSE i \in kept : \A j \in kept : i <= j,
                       CHOOSE i \in kept : \A j \in kept : i >= j))

\* str.isalpha() / str.isdigit(): non-empty and every character of the class
str_isalpha(t) == t # "" /\ \A i \in 1..Len(t) : CharAt(t, i) \in LetterChars
str_isdigit(t) == t # "" /\ \A i \in 1..Len(t) : CharAt(t, i) \in DigitChars

\* `p in t` on strings
str_contains(t, p) ==
    \E i \in 1..(Len(t) - Len(p) + 1) : SubSeq(t, i, i + Len(p) - 1) = p

\* t.find(p): least 1-based position of p in t (0 when absent)
str_find(t, p) ==
    With({i \in 1..(Len(t) - Len(p) + 1) : SubSeq(t, i, i + Len(p) - 1) = p}, LAMBDA at :
        IF at = {} THEN 0 ELSE CHOOSE i \in at : \A j \in at : i <= j)

\* any(p in t for p in phrases)
any_in(phrases, t) == \E k \in DOMAIN phrases : str_contains(t, phrases[k])

\* " ".join(parts)
str_join(parts) ==
    str_concat([i \in 1..(2 * Len(parts) - 1) |->
                    IF i % 2 = 1 THEN parts[(i + 1) \div 2] ELSE " "])

\* Optional[str]
None == [some |-> FALSE, val |-> ""]
Some(s) == [some |-> TRUE, val |-> s]

(***************************************************************************)
(* The regular expressions of the re module, as a backtracking matcher.    *)
(* Match returns the ways a pattern can match at position i, in the order  *)
(* the backtracking engine tries them; each is the position after the      *)
(* match (e) and the span of capture group 1 (gs..ge-1, gs = 0 if unset).  *)
(***************************************************************************)
Lit(s) == [k |-> "lit", s |-> s]
\* a character class repeated min..max times (max = -1: unbounded)
Rep(set, min, max) == [k |-> "cls", set |-> set, min |-> min, max |-> max, greedy |-> TRUE]
RepLazy(set, min, max) == [k |-> "cls", set |-> set, min |-> min, max |-> max, greedy |-> FALSE]
\* . repeated lazily (.*?): any character but a newline
AnyLazy == [k |-> "any", set |-> {"\n"}, min |-> 0, max |-> -1, greedy |-> FALSE]
Cat(rs) == [k |-> "cat", rs |-> rs]
Alt(rs) == [k |-> "alt", rs |-> rs]
Opt(r) == [k |-> "opt", r |-> r]
Grp(r) == [k |-> "grp", r |-> r]
WB == [k |-> "wb"]

InClass(c, re, ic) ==
    IF re.k = "any" THEN c \notin re.set
    ELSE \/ c \in re.set
         \/ ic /\ (ToUpperCh(c) \in re.set \/ ToLowerCh(c) \in re.set)

\* length of the longest run of class characters from position i, at most cap
RECURSIVE RunIn(_, _, _, _, _)
RunIn(re, t, ic, lo, hi) ==
    IF lo > hi THEN 0
    ELSE IF lo = hi THEN (IF InClass(CharAt(t, lo), re, ic) THEN 1 ELSE 0)
    ELSE LET mid == (lo + hi) \div 2
             left == RunIn(re, t, ic, lo, mid)
         IN  IF left < mid - lo + 1 THEN left ELSE left + RunIn(re, t, ic, mid + 1, hi)

RunLen(re, t, i, ic, cap) ==
    RunIn(re, t, ic, i, IF i + cap - 1 <= Len(t) THEN i + cap - 1 ELSE Len(t))

LitAt(s, t, i, ic) ==
    /\ i + Len(s) - 1 <= Len(t)
    /\ IF ic
       THEN \A k \in 1..Len(s) : ToLowerCh(CharAt(t, i + k - 1)) = ToLowerCh(CharAt(s, k))
       ELSE SubSeq(t, i, i + Len(s) - 1) = s

\* \b: exactly one of the characters around position i is a word character
WordBoundaryAt(t, i) ==
    LET before == i > 1 /\ i - 1 <= Len(t) /\ CharAt(t, i - 1) \in WordChars
        after  == i >= 1 /\ i <= Len(t) /\ CharAt(t, i) \in WordChars
    IN  before # after

\* the lower-cased characters a match of the pattern can start with, when the
\* pattern starts with literal text ({} otherwise: any character)
RECURSIVE FirstChars(_), FirstCharsAlt(_, _)
FirstChars(re) ==
    CASE re.k = "lit" -> IF re.s = "" THEN {} ELSE {ToLowerCh(CharAt(re.s, 1))}
      [] re.k = "grp" -> FirstChars(re.r)
      [] re.k = "cat" -> IF re.rs = <<>> THEN {} ELSE FirstChars(re.rs[1])
      [] re.k = "alt" -> FirstCharsAlt(re.rs, 1)
      [] OTHER -> {}

FirstCharsAlt(rs, n) ==
    IF n > Len(rs) THEN {}
    ELSE LET here == FirstChars(rs[n])
             rest == FirstCharsAlt(rs, n + 1)
         IN  IF here = {} \/ (n < Len(rs) /\ rest = {}) THEN {} ELSE here \cup rest

RECURSIVE Match(_, _, _, _), MatchAlt(_, _, _, _, _), MatchSeq(_, _, _, _, _),
          Extend(_, _, _, _, _, _)
Match(re, t, i, ic) ==
    CASE re.k = "lit" ->
            IF LitAt(re.s, t, i, ic) THEN <<[e |-> i + Len(re.s), gs |-> 0, ge |-> 0]>> ELSE <<>>
      [] re.k \in {"cls", "any"} ->
            LET n == RunLen(re, t, i, ic, IF re.max < 0 THEN Len(t) ELSE re.max)
            IN  IF n < re.min THEN <<>>
                ELSE [j \in 1..(n - re.min + 1) |->
                        [e  |-> IF re.greedy THEN i + n - j + 1 ELSE i + re.min + j - 1,
                         gs |-> 0, ge |-> 0]]
      [] re.k = "wb" ->
            IF WordBoundaryAt(t, i) THEN <<[e |-> i, gs |-> 0, ge |-> 0]>> ELSE <<>>
      [] re.k = "opt" -> Match(re.r, t, i, ic) \o <<[e |-> i, gs |-> 0, ge |-> 0]>>
      [] re.k = "grp" ->
            LET ms == Match(re.r, t, i, ic)
            IN  [j \in DOMAIN ms |-> [e |-> ms[j].e, gs |-> i, ge |-> ms[j].e]]
      [] re.k = "alt" -> MatchAlt(re.rs, 1, t, i, ic)
      [] re.k = "cat" -> MatchSeq(re.rs, 1, <<[e |-> i, gs |-> 0, ge |-> 0]>>, t, ic)

MatchAlt(rs, n, t, i, ic) ==
    IF n > Len(rs) THEN <<>>
    ELSE Match(rs[n], t, i, ic) \o MatchAlt(rs, n + 1, t, i, ic)

\* the ways to go on with r from each of ways[lo..hi], in the order the
\* backtracking engine tries them (by halves)
Extend(ways, lo, hi, r, t, ic) ==
    IF lo > hi THEN <<>>
    ELSE IF lo = hi
    THEN LET ms == Match(r, t, ways[lo].e, ic)
         IN  [x \in DOMAIN ms |->
                IF ms[x].gs # 0 THEN ms[x]
                ELSE [e |-> ms[x].e, gs |-> ways[lo].gs, ge |-> ways[lo].ge]]
    ELSE Extend(ways, lo, (lo + hi) \div 2, r, t, ic)
            \o Extend(ways, (lo + hi) \div 2 + 1, hi, r, t, ic)

\* ways: the ways of matching rs[1..k-1], in order; the result: those of rs.
\* A way goes on only if rs[k+1] can start where it ends.
MatchSeq(rs, k, ways, t, ic) ==
    IF k > Len(rs) \/ ways = <<>> THEN ways
    ELSE MatchSeq(rs, k + 1,
            LET next == IF k < Len(rs) THEN FirstChars(rs[k + 1]) ELSE {}
            IN  IF next = {} THEN Extend(ways, 1, Len(ways), rs[k], t, ic)
                ELSE SelectSeq(Extend(ways, 1, Len(ways), rs[k], t, ic), LAMBDA m :
                         m.e <= Len(t) /\ ToLowerCh(CharAt(t, m.e)) \in next),
            t, ic)

NoMatch == [found |-> FALSE, s |-> 0, e |-> 0, g |-> ""]

\* re.search from position i on: the leftmost match, the first way it matches
SearchFrom(re, t, i, ic) ==
    With({j \in i..(Len(t) + 1) :
             /\ FirstChars(re) # {} =>
                    j <= Len(t) /\ ToLowerCh(CharAt(t, j)) \in FirstChars(re)
             /\ Match(re, t, j, ic) # <<>>}, LAMBDA starts :
        IF starts = {} THEN NoMatch
        ELSE With(CHOOSE j \in starts : \A j2 \in starts : j <= j2, LAMBDA s :
                 With(Match(re, t, s, ic)[1], LAMBDA m :
                     [found |-> TRUE, s |-> s, e |-> m.e,
                      g |-> IF m.gs = 0 THEN "" ELSE SubSeq(t, m.gs, m.ge - 1)])))

re_search(re, t, ic) == SearchFrom(re, t, 1, ic)

\* re.findall of a pattern with one group: the group of each successive
\* non-overlapping match
RECURSIVE FindAllFrom(_, _, _, _)
FindAllFrom(re, t, i, ic) ==
    With(SearchFrom(re, t, i, ic), LAMBDA m :
        IF ~m.found THEN <<>>
        ELSE <<m.g>> \o FindAllFrom(re, t, IF m.e > m.s THEN m.e ELSE m.e + 1, ic))

re_findall(re, t, ic) == FindAllFrom(re, t, 1, ic)

\* re.sub(pattern, repl, t, count=1)
re_sub_first(re, repl, t, ic) ==
    With(re_search(re, t, ic), LAMBDA m :
        IF ~m.found THEN t
        ELSE SubSeq(t, 1, m.s - 1) \o repl \o SubSeq(t, m.e, Len(t)))

\* re.sub(r'[\s.]', '', t): drop the characters of a set
str_remove(t, set) ==
    str_concat([i \in 1..Len(t) |-> IF CharAt(t, i) \in set THEN "" ELSE CharAt(t, i)])


(***************************************************************************)
(* config.py                                                               *)
(***************************************************************************)
FALSE_POSITIVE_WORDS == {
    "the", "a", "is", "your", "plus", "and", "for", "to", "of", "in", "on", "at",
    "that", "this", "with", "you", "are", "was", "been", "have", "has", "had",
    "will", "would", "could", "should", "may", "might", "must", "can", "do", "does",
    "correctly", "certainly", "absolutely", "definitely", "please", "kindly",
    "thank", "thanks", "sorry", "apologies", "welcome", "hello", "goodbye",
    "phone", "mobile", "email", "address", "name", "guest", "guests",
    "coorg", "kodai", "tamara", "resort", "resorts", "cottage", "cottages", "room", "rooms",
    "january", "february", "march", "april", "june", "july", "august",
    "september", "october", "november", "december",
    "monday", "tuesday", "wednesday", "thursday", "friday", "saturday", "sunday",
    "today", "tomorrow", "yesterday", "nights", "night", "days", "day", "week",
    "luxury", "suite", "heritage", "superior", "deluxe", "premium",
    "indian", "india", "inr", "rupees", "amount", "total", "price",
    "integrated", "process", "system", "details", "information",
    "moment", "second", "minute", "shortly", "right", "away",
    "perfect", "wonderful", "lovely", "beautiful", "great", "good",
    "checking", "checkin", "checkout", "staying", "travel", "traveling" }

(***************************************************************************)
(* booking/validation.py                                                   *)
(***************************************************************************)
\* number of digit characters: len(re.sub(r"[^0-9]", "", s))
DigitCount(s) == Cardinality({i \in 1..Len(s) : CharAt(s, i) \in DigitChars})

\* re.match(r"^[A-Z0-9-]+$", s) on a stripped string
IsCodeChars(s) ==
    s # "" /\ \A i \in 1..Len(s) : CharAt(s, i) \in UpperChars \cup DigitChars \cup {"-"}

\* variant: the minimum length is one too low and the range test does not make up for it
is_valid_booking_number_min2(candidate) ==
    With(str_upper(str_strip(candidate)), LAMBDA candidate_clean :
    With(str_lower(candidate), LAMBDA candidate_lower :
        IF candidate_lower \in FALSE_POSITIVE_WORDS THEN FALSE
        ELSE IF Len(candidate_clean) < 2 THEN FALSE
        ELSE IF str_isalpha(candidate_clean)
             THEN 2 <= Len(candidate_clean) /\ Len(candidate_clean) <= 8
        ELSE IF str_isdigit(candidate_clean)
             THEN 2 <= Len(candidate_clean) /\ Len(candidate_clean) <= 8
        ELSE IF IsCodeChars(candidate_clean)
             THEN With(DigitCount(candidate_clean), LAMBDA digits_only :
                      IF digits_only = 0 THEN FALSE
                      ELSE IF digits_only >= 10 THEN FALSE
                      ELSE TRUE)
        ELSE FALSE))

\* variant: an all-letter code has no upper length limit
is_valid_booking_number_long_alpha(candidate) ==
    With(str_upper(str_strip(candidate)), LAMBDA candidate_clean :
    With(str_lower(candidate), LAMBDA candidate_lower :
        IF candidate_lower \in FALSE_POSITIVE_WORDS THEN FALSE
        ELSE IF Len(candidate_clean) < 3 THEN FALSE
        ELSE IF str_isalpha(candidate_clean)
             THEN 3 <= Len(candidate_clean)
        ELSE IF str_isdigit(candidate_clean)
             THEN 3 <= Len(candidate_clean) /\ Len(candidate_clean) <= 8
        ELSE IF IsCodeChars(candidate_clean)
             THEN With(DigitCount(candidate_clean), LAMBDA digits_only :
                      IF digits_only = 0 THEN FALSE
                      ELSE IF digits_only >= 10 THEN FALSE
                      ELSE TRUE)
        ELSE FALSE))

is_valid_booking_number(candidate) ==
    With(str_upper(str_strip(candidate)), LAMBDA candidate_clean :
    With(str_lower(candidate), LAMBDA candidate_lower :
        IF candidate_lower \in FALSE_POSITIVE_WORDS THEN FALSE
        ELSE IF Len(candidate_clean) < 3 THEN FALSE
        ELSE IF str_isalpha(candidate_clean)
             THEN 3 <= Len(candidate_clean) /\ Len(candidate_clean) <= 8
        ELSE IF str_isdigit(candidate_clean)
             THEN 3 <= Len(candidate_clean) /\ Len(candidate_clean) <= 8
        ELSE IF IsCodeChars(candidate_clean)
             THEN With(DigitCount(candidate_clean), LAMBDA digits_only :
                      IF digits_only = 0 THEN FALSE
                      ELSE IF digits_only >= 10 THEN FALSE
                      ELSE TRUE)
        ELSE FALSE))

(***************************************************************************)
(* booking/number_parser.py                                                *)
(***************************************************************************)
WORD_TO_DIGIT == [w \in {"zero", "oh", "o", "one", "won", "two", "to", "too", "three", "tree",
                         "four", "for", "fore", "five", "six", "sex", "seven", "eight", "ate",
                         "nine", "niner"} |->
    CASE w \in {"zero", "oh", "o"} -> "0"
      [] w \in {"one", "won"} -> "1"
      [] w \in {"two", "to", "too"} -> "2"
      [] w \in {"three", "tree"} -> "3"
      [] w \in {"four", "for", "fore"} -> "4"
      [] w = "five" -> "5"
      [] w \in {"six", "sex"} -> "6"
      [] w = "seven" -> "7"
      [] w \in {"eight", "ate"} -> "8"
      [] w \in {"nine", "niner"} -> "9"]

\* for word, digit in WORD_TO_DIGIT.items():
\*     result = re.sub(r'\b' + word + r'\b', digit, result, flags=re.IGNORECASE)
\* A key is made of letters, so \bkey\b matches exactly the maximal runs of
\* word characters that equal the key, and a digit put in place of one is never
\* matched by a later key: the loop replaces every such run by its digit.
convert_spelled_numbers(text) ==
    LET EndOf(i) == i + RunLen(Rep(WordChars, 1, -1), text, i, FALSE, Len(text)) - 1
    IN  With({i \in 1..Len(text) :
                 /\ CharAt(text, i) \in WordChars
                 /\ i = 1 \/ CharAt(text, i - 1) \notin WordChars
                 /\ str_lower(SubSeq(text, i, EndOf(i))) \in DOMAIN WORD_TO_DIGIT}, LAMBDA hits :
            IF hits = {} THEN text
            ELSE str_concat([i \in 1..Len(text) |->
                    IF i \in hits THEN WORD_TO_DIGIT[str_lower(SubSeq(text, i, EndOf(i)))]
                    ELSE IF \E h \in hits : h < i /\ i <= EndOf(h) THEN ""
                    ELSE CharAt(text, i)]))

CodeChar == UpperChars \cup DigitChars
\* [A-Z0-9][\s.]+[A-Z0-9][\s.A-Z0-9]{2,20}
SpacedBody == Cat(<<Rep(CodeChar, 1, 1), Rep(SpaceChars \cup {"."}, 1, -1), Rep(CodeChar, 1, 1),
                    Rep(SpaceChars \cup {"."} \cup CodeChar, 2, 20)>>)
\* r'\b([A-Z0-9][\s.]+[A-Z0-9][\s.A-Z0-9]{2,20})\b'
pattern_spaced == Cat(<<WB, Grp(SpacedBody), WB>>)
\* r'([A-Z0-9][\s.]+[A-Z0-9][\s.A-Z0-9]{2,20})' of normalize_booking_number_text
pattern_spaced_sub == Grp(SpacedBody)
\* r'\b(\d{3,8})\b'
pattern_digits == Cat(<<WB, Grp(Rep(DigitChars, 3, 8)), WB>>)

\* for match in matches: the first whose cleaned form has 3 to 8 characters
RECURSIVE FirstSpelled(_, _)
FirstSpelled(matches, n) ==
    IF n > Len(matches) THEN None
    ELSE With(str_upper(str_remove(matches[n], SpaceChars \cup {"."})), LAMBDA cleaned :
             IF 3 <= Len(cleaned) /\ Len(cleaned) <= 8 THEN Some(cleaned)
             ELSE FirstSpelled(matches, n + 1))

extract_spelled_booking_code(text) ==
    With(FirstSpelled(re_findall(pattern_spaced, text, TRUE), 1), LAMBDA first :
        IF first.some THEN first
        ELSE With(convert_spelled_numbers(text), LAMBDA text_with_digits :
                 IF text_with_digits # text
                 THEN With(re_findall(pattern_digits, text_with_digits, FALSE),
                           LAMBDA digit_matches :
                               IF digit_matches # <<>> THEN Some(digit_matches[1]) ELSE None)
                 ELSE None))

normalize_booking_number_text(text) ==
    With(extract_spelled_booking_code(text), LAMBDA spelled_code :
        convert_spelled_numbers(
            IF spelled_code.some /\ spelled_code.val # ""
            THEN re_sub_first(pattern_spaced_sub, spelled_code.val, text, TRUE)
            ELSE text))

(***************************************************************************)
(* booking/patterns.py                                                     *)
(***************************************************************************)
\* (?:booking|bouquet|bucket|boofing|buffing)
BookingWord == Alt(<<Lit("booking"), Lit("bouquet"), Lit("bucket"), Lit("boofing"), Lit("buffing")>>)
\* <label>\s*numbers?[:\s]+(?:is\s+)?
Label(word) == Cat(<<word, Rep(SpaceChars, 0, -1), Lit("number"), Opt(Lit("s")),
                     Rep(SpaceChars \cup {":"}, 1, -1),
                     Opt(Cat(<<Lit("is"), Rep(SpaceChars, 1, -1)>>))>>)
\* your <label> (?:number )?is[:\s]+
YourLabel(word) == Cat(<<Lit("your "), word, Lit(" "), Opt(Lit("number ")), Lit("is"),
                         Rep(SpaceChars \cup {":"}, 1, -1)>>)
\* [A-Z]{2,4}[-][0-9]{4}[-][0-9]+
DashedCode == Cat(<<Rep(UpperChars, 2, 4), Lit("-"), Rep(DigitChars, 4, 4), Lit("-"),
                    Rep(DigitChars, 1, -1)>>)
\* [A-Z]+[0-9]+[A-Z0-9]*
AlphaNumCode == Cat(<<Rep(UpperChars, 1, -1), Rep(DigitChars, 1, -1), Rep(CodeChar, 0, -1)>>)
\* [0-9]+[A-Z]+[A-Z0-9]*
NumAlphaCode == Cat(<<Rep(DigitChars, 1, -1), Rep(UpperChars, 1, -1), Rep(CodeChar, 0, -1)>>)
\* [A-Z0-9-]{3,15}
LooseCode == Rep(CodeChar \cup {"-"}, 3, 15)

BOOKING_NUMBER_PATTERNS == <<
    Cat(<<Label(BookingWord), Grp(DashedCode)>>),
    Cat(<<Label(Lit("confirmation")), Grp(DashedCode)>>),
    Cat(<<Label(Lit("reference")), Grp(DashedCode)>>),
    Cat(<<Label(BookingWord), Grp(AlphaNumCode)>>),
    Cat(<<Label(BookingWord), Grp(NumAlphaCode)>>),
    Cat(<<Label(Lit("confirmation")), Grp(AlphaNumCode)>>),
    Cat(<<Label(Lit("confirmation")), Grp(NumAlphaCode)>>),
    Cat(<<Label(BookingWord), Grp(Rep(DigitChars, 3, 8)), WB>>),
    Cat(<<Label(Lit("confirmation")), Grp(Rep(DigitChars, 3, 8)), WB>>),
    Cat(<<Label(Lit("reference")), Grp(Rep(DigitChars, 3, 8)), WB>>),
    Cat(<<Label(Lit("reservation")), Grp(Rep(DigitChars, 3, 8)), WB>>),
    Cat(<<YourLabel(BookingWord), Grp(LooseCode)>>),
    Cat(<<YourLabel(Lit("confirmation")), Grp(LooseCode)>>),
    Cat(<<YourLabel(Lit("reservation")), Grp(LooseCode)>>),
    Cat(<<YourLabel(Lit("reference")), Grp(LooseCode)>>),
    Cat(<<Alt(<<Lit("confirmed"), Lit("booked")>>), AnyLazy,
          Alt(<<Lit("booking"), Lit("bouquet"), Lit("bucket"), Lit("boofing"), Lit("buffing"),
                Lit("confirmation"), Lit("reference"), Lit("reservation")>>),
          Rep(SpaceChars, 0, -1), Opt(Lit("number")), Rep(SpaceChars, 0, -1), Opt(Lit("is")),
          Rep(SpaceChars, 0, -1), Rep(SpaceChars \cup {":"}, 1, -1), Grp(LooseCode)>>)
>>

INVALID_BOOKING_PATTERNS == <<
    Cat(<<Label(BookingWord), Grp(Rep(WordChars, 1, -1))>>),
    Cat(<<Label(Lit("confirmation")), Grp(Rep(WordChars, 1, -1))>>),
    Cat(<<Label(Lit("reference")), Grp(Rep(WordChars, 1, -1))>>),
    Cat(<<Label(Lit("reservation")), Grp(Rep(WordChars, 1, -1))>>),
    Cat(<<YourLabel(BookingWord), Grp(Rep(WordChars, 1, -1))>>),
    Cat(<<YourLabel(Lit("confirmation")), Grp(Rep(WordChars, 1, -1))>>)
>>

CONFIRMATION_INDICATORS == <<
    "booking number", "bouquet number", "bucket number", "boofing number", "buffing number",
    "confirmation number", "reference number", "reservation number",
    "your booking is", "your bouquet is", "your boofing is",
    "booking confirmed", "reservation confirmed"
>>

SKIP_WORDS == {"the", "a", "an", "your", "our", "this", "that", "it",
               "for", "and", "or", "is", "number"}

(***************************************************************************)
(* booking/extraction.py                                                   *)
(***************************************************************************)
\* " ".join(t["content"] for t in transcripts if t["role"] == role)
RoleContents(transcripts, role) ==
    SelectSeq(transcripts, LAMBDA t : t.role = role)

RoleText(transcripts, role) ==
    With(RoleContents(transcripts, role), LAMBDA us :
        str_join([k \in DOMAIN us |-> us[k].content]))

\* the least index of a set of indices
First(hits) == CHOOSE n \in hits : \A other \in hits : n <= other

\* match.group(1).upper().strip() of pattern n, if it matches
MainCandidate(agent_text, n) ==
    With(re_search(BOOKING_NUMBER_PATTERNS[n], agent_text, TRUE), LAMBDA match :
        IF match.found THEN Some(str_strip(str_upper(match.g))) ELSE None)

\* variant: the first pattern match is returned without validation
TryMainPatterns_unvalidated(agent_text) ==
    With({n \in DOMAIN BOOKING_NUMBER_PATTERNS : MainCandidate(agent_text, n).some},
         LAMBDA hits :
             IF hits = {} THEN None ELSE MainCandidate(agent_text, First(hits)))

\* for pattern in BOOKING_NUMBER_PATTERNS: return the first validated candidate
TryMainPatterns(agent_text) ==
    With({n \in DOMAIN BOOKING_NUMBER_PATTERNS :
             With(MainCandidate(agent_text, n), LAMBDA candidate :
                 candidate.some /\ is_valid_booking_number(candidate.val))},
         LAMBDA hits :
             IF hits = {} THEN None ELSE MainCandidate(agent_text, First(hits)))

\* for num in numbers: return the first validated number
RECURSIVE FirstValidNumber(_, _)
FirstValidNumber(numbers, n) ==
    IF n > Len(numbers) THEN None
    ELSE IF is_valid_booking_number(numbers[n]) THEN Some(numbers[n])
    ELSE FirstValidNumber(numbers, n + 1)

\* the first validated number within 80 characters from indicator n
NumberNear(agent_text, agent_text_normalized, n) ==
    With(str_find(agent_text_normalized, CONFIRMATION_INDICATORS[n]), LAMBDA pos :
        IF pos = 0 THEN None
        ELSE With(SubSeq(agent_text, pos,
                         IF pos + 79 <= Len(agent_text) THEN pos + 79 ELSE Len(agent_text)),
                  LAMBDA search_region :
                      FirstValidNumber(re_findall(pattern_digits, search_region, FALSE), 1)))

\* for indicator in CONFIRMATION_INDICATORS: if indicator in agent_text_normalized
TryIndicators(agent_text, agent_text_normalized) ==
    With({n \in DOMAIN CONFIRMATION_INDICATORS :
             NumberNear(agent_text, agent_text_normalized, n).some},
         LAMBDA hits :
             IF hits = {} THEN None
             ELSE NumberNear(agent_text, agent_text_normalized, First(hits)))

\* what pattern n of INVALID_BOOKING_PATTERNS makes the loop return, if anything
InvalidCandidate(agent_text, n) ==
    With(re_search(INVALID_BOOKING_PATTERNS[n], agent_text, TRUE), LAMBDA match :
    With(str_strip(match.g), LAMBDA candidate :
        IF match.found /\ str_lower(candidate) = "number" THEN Some("number")
        ELSE IF match.found /\ str_lower(candidate) \notin SKIP_WORDS THEN Some(candidate)
        ELSE None))

\* for pattern in INVALID_BOOKING_PATTERNS: whatever the agent said
TryInvalidPatterns(agent_text) ==
    With({n \in DOMAIN INVALID_BOOKING_PATTERNS : InvalidCandidate(agent_text, n).some},
         LAMBDA hits :
             IF hits = {} THEN None ELSE InvalidCandidate(agent_text, First(hits)))

extract_booking_number(transcripts, allow_invalid) ==
    With(RoleText(transcripts, "agent"), LAMBDA raw_text :
    With(extract_spelled_booking_code(raw_text), LAMBDA spelled_code :
        IF spelled_code.some /\ spelled_code.val # "" /\ is_valid_booking_number(spelled_code.val)
        THEN spelled_code
        ELSE With(normalize_booking_number_text(raw_text), LAMBDA agent_text :
             With(TryMainPatterns(agent_text), LAMBDA main :
                 IF main.some THEN main
                 ELSE With(TryIndicators(agent_text, str_lower(agent_text)), LAMBDA near :
                          IF near.some THEN near
                          ELSE IF allow_invalid THEN TryInvalidPatterns(agent_text)
                          ELSE None)))))

extract_raw_booking_number(transcripts) == extract_booking_number(transcripts, TRUE)

(***************************************************************************)
(* booking/constants.py                                                    *)
(***************************************************************************)
CONVERSATION_STEPS == <<
    "GREETING", "NAME_COLLECTED", "PHONE_COLLECTED", "RESORT_SELECTED", "DATES_PROVIDED",
    "OCCUPANCY_CHECKED", "EXPERIENCE_INTENT", "ROOM_POSITIONED", "RATE_QUOTED",
    "EXPERIENCE_SHAPED", "OCCASION_ASKED", "EMAIL_COLLECTED", "RECAP_DONE",
    "CONFIRMATION_ASKED", "BOOKING_CONFIRMED"
>>

\* CONVERSATION_STEPS.index(stage)
StageIndex(stage) == (CHOOSE i \in DOMAIN CONVERSATION_STEPS : CONVERSATION_STEPS[i] = stage) - 1

(***************************************************************************)
(* booking/confirmation.py                                                 *)
(***************************************************************************)
CONFIRMATION_PHRASES == <<
    "your booking number is", "your bouquet number is", "your confirmation number is",
    "your reference number is", "your reservation number is",
    "booking number:", "bouquet number:", "confirmation number:",
    "i have confirmed your booking", "your booking has been confirmed",
    "your reservation has been confirmed", "booking is confirmed", "reservation is confirmed",
    "i've booked your", "successfully booked", "booking confirmed for",
    "reservation confirmed for", "your booking is confirmed", "your reservation is confirmed"
>>

EXPLICIT_CONFIRMATIONS == <<
    "your booking has been confirmed", "i have confirmed your booking",
    "booking is now confirmed", "reservation is now confirmed", "your stay has been booked",
    "i've successfully booked", "your booking is confirmed", "your reservation is confirmed",
    "successfully made your reservation", "successfully made your booking"
>>

failure_patterns == <<
    "encountered an issue", "encountered a issue", "encountering an issue",
    "encountering a issue", "technical issue", "technical hitch", "technical problem",
    "unable to finalize", "unable to complete", "cannot finalize", "cannot complete",
    "can't finalize", "can't complete", "system issue", "preventing me from",
    "try that again", "try again", "let me try", "having trouble", "having difficulty"
>>

\* (confirmed|booked).*?(booking|bouquet|bucket|confirmation|reservation|reference)
\*     \s*(number)?\s*(is)?\s*\d{3,}
number_mention_pattern ==
    Cat(<<Alt(<<Lit("confirmed"), Lit("booked")>>), AnyLazy,
          Alt(<<Lit("booking"), Lit("bouquet"), Lit("bucket"), Lit("confirmation"),
                Lit("reservation"), Lit("reference")>>),
          Rep(SpaceChars, 0, -1), Opt(Lit("number")), Rep(SpaceChars, 0, -1), Opt(Lit("is")),
          Rep(SpaceChars, 0, -1), Rep(DigitChars, 3, -1)>>)

\* variant: only the agent's latest words are tested
has_failure_pattern_latest(agent_text) ==
    \E k \in DOMAIN failure_patterns :
        /\ Len(failure_patterns[k]) <= Len(agent_text)
        /\ SubSeq(agent_text, Len(agent_text) - Len(failure_patterns[k]) + 1,
                  Len(agent_text)) = failure_patterns[k]

has_failure_pattern(agent_text) == any_in(failure_patterns, agent_text)

\* variant: a confirmation phrase confirms without a valid booking number
is_booking_confirmed_phrase_only(transcripts) ==
    LET agent_text == str_lower(RoleText(transcripts, "agent"))
    IN  IF has_failure_pattern(agent_text) THEN FALSE
        ELSE \/ any_in(CONFIRMATION_PHRASES, agent_text)
             \/ any_in(EXPLICIT_CONFIRMATIONS, agent_text)
             \/ re_search(number_mention_pattern, agent_text, FALSE).found

\* variant: the explicit confirmations are looked at before the failure patterns
is_booking_confirmed_explicit_first(transcripts) ==
    LET agent_text == str_lower(RoleText(transcripts, "agent"))
    IN  IF any_in(EXPLICIT_CONFIRMATIONS, agent_text) THEN TRUE
        ELSE IF has_failure_pattern(agent_text) THEN FALSE
        ELSE \/ /\ any_in(CONFIRMATION_PHRASES, agent_text)
                /\ extract_booking_number(transcripts, FALSE).some
             \/ re_search(number_mention_pattern, agent_text, FALSE).found

\* variant: a validated booking number confirms without a confirmation phrase
is_booking_confirmed_number_alone(transcripts) ==
    LET agent_text == str_lower(RoleText(transcripts, "agent"))
    IN  IF has_failure_pattern(agent_text) THEN FALSE
        ELSE \/ extract_booking_number(transcripts, FALSE).some
             \/ any_in(EXPLICIT_CONFIRMATIONS, agent_text)
             \/ re_search(number_mention_pattern, agent_text, FALSE).found

is_booking_confirmed(transcripts) ==
    LET agent_text == str_lower(RoleText(transcripts, "agent"))
        has_confirmation_phrase == any_in(CONFIRMATION_PHRASES, agent_text)
        booking_number == extract_booking_number(transcripts, FALSE)
        has_valid_number == booking_number.some
        explicit_confirmed == any_in(EXPLICIT_CONFIRMATIONS, agent_text)
        has_number_mention == re_search(number_mention_pattern, agent_text, FALSE).found
    IN  IF has_failure_pattern(agent_text) THEN FALSE
        ELSE \/ has_confirmation_phrase /\ has_valid_number
             \/ explicit_confirmed
             \/ has_number_mention

(***************************************************************************)
(* booking/stages.py: get_conversation_stage                               *)
(***************************************************************************)
\* re.search(r'\d{4,}', text), re.search(r"\d{5,}", text)
HasDigitRun(text, n) == re_search(Rep(DigitChars, n, -1), text, FALSE).found

\* the conditions of the `if` statements of get_conversation_stage, in code order
ConfirmationAsked(agent_text) ==
    any_in(<<"shall i go ahead", "shall i confirm", "shall i book",
             "should i proceed", "shall i secure", "ready to confirm",
             "would you like me to book", "shall i make the reservation">>, agent_text)

RecapDone(agent_text) ==
    /\ any_in(<<"let me recap", "let me quickly recap", "to summarize",
                "you're looking at", "so that's", "just to confirm">>, agent_text)
    /\ any_in(<<"inr", "total", "nights">>, agent_text)

\* variant: the agent's question alone counts as a collected email
EmailCollected_either(agent_text, customer_text) ==
    str_contains(agent_text, "email") \/ str_contains(customer_text, "@")

EmailCollected(agent_text, customer_text) ==
    str_contains(agent_text, "email") /\ str_contains(customer_text, "@")

OccasionAsked(agent_text) ==
    any_in(<<"special occasion", "celebrating", "anniversary", "birthday",
             "honeymoon", "any occasion">>, agent_text)

ExperienceShaped(agent_text) ==
    /\ any_in(<<"spa", "plantation walk", "guided", "activities", "experiences",
                "yoga", "meditation", "nature walk">>, agent_text)
    /\ any_in(<<"enjoy", "love", "recommend">>, agent_text)

RateQuoted(agent_text) ==
    /\ any_in(<<"total", "inr", "comes to", "rupees">>, agent_text)
    /\ HasDigitRun(agent_text, 4)

RoomPositioned(agent_text) ==
    any_in(<<"cottage", "luxury cottage", "suite cottage", "eden lotus",
             "heritage room", "heritage suite", "superior luxury">>, agent_text)

ExperienceIntent(agent_text) ==
    any_in(<<"what kind of getaway", "restful", "experiential", "nature-focused",
             "how would you like to spend">>, agent_text)

OccupancyChecked(agent_text, customer_text) ==
    /\ any_in(<<"how many guests", "how many people", "any children",
                "children traveling", "adults", "occupancy">>, agent_text)
    /\ any_in(<<"adult", "people", "guests", "child", "children", "2", "3", "4">>,
              customer_text)

DatesProvided(customer_text) ==
    any_in(<<"night", "nights", "tomorrow", "monday", "tuesday", "wednesday",
             "thursday", "friday", "saturday", "sunday", "december", "january",
             "february", "march", "today", "next week", "this weekend">>, customer_text)

ResortSelected(customer_text) == any_in(<<"coorg", "kodai">>, customer_text)

PhoneCollected(customer_text) == HasDigitRun(str_remove(customer_text, {" "}), 5)

NameCollected(transcripts, agent_text) ==
    /\ Len(transcripts) > 3
    /\ str_contains(agent_text, "name")
    /\ \E i \in DOMAIN transcripts :
          /\ transcripts[i].role = "agent"
          /\ str_contains(str_lower(transcripts[i].content), "name")
          /\ \E j \in (i + 1)..Len(transcripts) :
                transcripts[j].role = "customer" /\ Len(transcripts[j].content) > 3

\* variant: a confirmation phrase alone classifies the call as confirmed
get_conversation_stage_phrase(transcripts) ==
    LET agent_text == str_lower(RoleText(transcripts, "agent"))
        customer_text == str_lower(RoleText(transcripts, "customer"))
    IN  IF is_booking_confirmed(transcripts)
              \/ any_in(CONFIRMATION_PHRASES, agent_text) THEN "BOOKING_CONFIRMED"
        ELSE IF ConfirmationAsked(agent_text) THEN "CONFIRMATION_ASKED"
        ELSE IF RecapDone(agent_text) THEN "RECAP_DONE"
        ELSE IF EmailCollected(agent_text, customer_text) THEN "EMAIL_COLLECTED"
        ELSE IF OccasionAsked(agent_text) THEN "OCCASION_ASKED"
        ELSE IF ExperienceShaped(agent_text) THEN "EXPERIENCE_SHAPED"
        ELSE IF RateQuoted(agent_text) THEN "RATE_QUOTED"
        ELSE IF RoomPositioned(agent_text) THEN "ROOM_POSITIONED"
        ELSE IF ExperienceIntent(agent_text) THEN "EXPERIENCE_INTENT"
        ELSE IF OccupancyChecked(agent_text, customer_text) THEN "OCCUPANCY_CHECKED"
        ELSE IF DatesProvided(customer_text) THEN "DATES_PROVIDED"
        ELSE IF ResortSelected(customer_text) THEN "RESORT_SELECTED"
        ELSE IF PhoneCollected(customer_text) THEN "PHONE_COLLECTED"
        ELSE IF NameCollected(transcripts, agent_text) THEN "NAME_COLLECTED"
        ELSE "GREETING"

\* variant: a call that matches no stage gets a label outside CONVERSATION_STEPS
get_conversation_stage_unknown(transcripts) ==
    LET agent_text == str_lower(RoleText(transcripts, "agent"))
        customer_text == str_lower(RoleText(transcripts, "customer"))
    IN  IF is_booking_confirmed(transcripts) THEN "BOOKING_CONFIRMED"
        ELSE IF ConfirmationAsked(agent_text) THEN "CONFIRMATION_ASKED"
        ELSE IF RecapDone(agent_text) THEN "RECAP_DONE"
        ELSE IF EmailCollected(agent_text, customer_text) THEN "EMAIL_COLLECTED"
        ELSE IF OccasionAsked(agent_text) THEN "OCCASION_ASKED"
        ELSE IF ExperienceShaped(agent_text) THEN "EXPERIENCE_SHAPED"
        ELSE IF RateQuoted(agent_text) THEN "RATE_QUOTED"
        ELSE IF RoomPositioned(agent_text) THEN "ROOM_POSITIONED"
        ELSE IF ExperienceIntent(agent_text) THEN "EXPERIENCE_INTENT"
        ELSE IF OccupancyChecked(agent_text, customer_text) THEN "OCCUPANCY_CHECKED"
        ELSE IF DatesProvided(customer_text) THEN "DATES_PROVIDED"
        ELSE IF ResortSelected(customer_text) THEN "RESORT_SELECTED"
        ELSE IF PhoneCollected(customer_text) THEN "PHONE_COLLECTED"
        ELSE IF NameCollected(transcripts, agent_text) THEN "NAME_COLLECTED"
        ELSE "UNKNOWN"

\* variant: the quoted rate is looked at before the shaped experience
get_conversation_stage_swapped(transcripts) ==
    LET agent_text == str_lower(RoleText(transcripts, "agent"))
        customer_text == str_lower(RoleText(transcripts, "customer"))
    IN  IF is_booking_confirmed(transcripts) THEN "BOOKING_CONFIRMED"
        ELSE IF ConfirmationAsked(agent_text) THEN "CONFIRMATION_ASKED"
        ELSE IF RecapDone(agent_text) THEN "RECAP_DONE"
        ELSE IF EmailCollected(agent_text, customer_text) THEN "EMAIL_COLLECTED"
        ELSE IF OccasionAsked(agent_text) THEN "OCCASION_ASKED"
        ELSE IF RateQuoted(agent_text) THEN "RATE_QUOTED"
        ELSE IF ExperienceShaped(agent_text) THEN "EXPERIENCE_SHAPED"
        ELSE IF RoomPositioned(agent_text) THEN "ROOM_POSITIONED"
        ELSE IF ExperienceIntent(agent_text) THEN "EXPERIENCE_INTENT"
        ELSE IF OccupancyChecked(agent_text, customer_text) THEN "OCCUPANCY_CHECKED"
        ELSE IF DatesProvided(customer_text) THEN "DATES_PROVIDED"
        ELSE IF ResortSelected(customer_text) THEN "RESORT_SELECTED"
        ELSE IF PhoneCollected(customer_text) THEN "PHONE_COLLECTED"
        ELSE IF NameCollected(transcripts, agent_text) THEN "NAME_COLLECTED"
        ELSE "GREETING"

get_conversation_stage(transcripts) ==
    LET agent_text == str_lower(RoleText(transcripts, "agent"))
        customer_text == str_lower(RoleText(transcripts, "customer"))
    IN  IF is_booking_confirmed(transcripts) THEN "BOOKING_CONFIRMED"
        ELSE IF ConfirmationAsked(agent_text) THEN "CONFIRMATION_ASKED"
        ELSE IF RecapDone(agent_text) THEN "RECAP_DONE"
        ELSE IF EmailCollected(agent_text, customer_text) THEN "EMAIL_COLLECTED"
        ELSE IF OccasionAsked(agent_text) THEN "OCCASION_ASKED"
        ELSE IF ExperienceShaped(agent_text) THEN "EXPERIENCE_SHAPED"
        ELSE IF RateQuoted(agent_text) THEN "RATE_QUOTED"
        ELSE IF RoomPositioned(agent_text) THEN "ROOM_POSITIONED"
        ELSE IF ExperienceIntent(agent_text) THEN "EXPERIENCE_INTENT"
        ELSE IF OccupancyChecked(agent_text, customer_text) THEN "OCCUPANCY_CHECKED"
        ELSE IF DatesProvided(customer_text) THEN "DATES_PROVIDED"
        ELSE IF ResortSelected(customer_text) THEN "RESORT_SELECTED"
        ELSE IF PhoneCollected(customer_text) THEN "PHONE_COLLECTED"
        ELSE IF NameCollected(transcripts, agent_text) THEN "NAME_COLLECTED"
        ELSE "GREETING"

(***************************************************************************)
(* booking/stages.py: failure diagnosis                                    *)
(***************************************************************************)
\* Python truth of an Optional[str]: neither None nor ""
Truthy(optional) == optional.some /\ optional.val # ""

\* s[:n]
str_prefix(s, n) == SubSeq(s, 1, IF Len(s) < n THEN Len(s) ELSE n)

\* " ".join(t["content"].lower() for t in messages)
LowerText(messages) == str_join([k \in DOMAIN messages |-> str_lower(messages[k].content)])

\* max(i for i, t in enumerate(transcripts) if t["role"] == role), 1-based
LastIndexOf(transcripts, role) ==
    CHOOSE i \in DOMAIN transcripts :
        /\ transcripts[i].role = role
        /\ \A j \in DOMAIN transcripts : transcripts[j].role = role => j <= i

technical_patterns == <<
    <<"technical issue", "Technical issue with booking system">>,
    <<"technical hitch", "Technical hitch encountered">>,
    <<"system issue", "System issue prevented booking">>,
    <<"unable to complete", "Agent unable to complete booking">>,
    <<"unable to finalize", "Agent unable to finalize booking">>,
    <<"cannot complete", "Agent could not complete booking">>,
    <<"cannot finalize", "Agent could not finalize booking">>,
    <<"preventing me from", "System preventing booking completion">>,
    <<"call us back", "Agent asked customer to call back later">>,
    <<"call back later", "Agent asked customer to call back later">>
>>

decline_patterns == <<
    "no thank", "don't want", "not interested", "cancel", "never mind",
    "changed my mind", "not now", "maybe later", "let me think"
>>

\* for pattern, message in technical_patterns: the patterns found in agent_text
TechnicalHits(agent_text) ==
    {k \in DOMAIN technical_patterns : str_contains(agent_text, technical_patterns[k][1])}

\* len(set(t["content"].lower()[:n] for t in agent_messages[-3:])) == 1
LastThreeAlike(agent_messages, n) ==
    /\ Len(agent_messages) >= 3
    /\ \A k \in (Len(agent_messages) - 2)..Len(agent_messages) :
          str_prefix(str_lower(agent_messages[k].content), n)
            = str_prefix(str_lower(agent_messages[Len(agent_messages)].content), n)

stage_context(stage, message_count) ==
    CASE stage = "GREETING" ->
            "Conversation stalled during initial greeting ("
                \o ToString(message_count) \o " messages)"
      [] stage = "NAME_COLLECTED" -> "Agent collected name but failed to ask for phone number"
      [] stage = "PHONE_COLLECTED" -> "Agent collected phone but failed to ask which resort"
      [] stage = "RESORT_SELECTED" -> "Agent confirmed resort but didn't ask for travel dates"
      [] stage = "DATES_PROVIDED" -> "Agent got dates but didn't check guest count/occupancy"
      [] stage = "OCCUPANCY_CHECKED" ->
            "Agent checked occupancy but didn't discuss experience preferences"
      [] stage = "EXPERIENCE_INTENT" -> "Agent discussed preferences but didn't recommend a room"
      [] stage = "ROOM_POSITIONED" -> "Agent positioned room but didn't provide pricing"
      [] stage = "RATE_QUOTED" ->
            "Agent quoted price but conversation stalled before confirmation"
      [] stage = "EXPERIENCE_SHAPED" -> "Agent discussed experiences but didn't collect email"
      [] stage = "OCCASION_ASKED" -> "Agent asked about occasions but didn't collect email"
      [] stage = "EMAIL_COLLECTED" -> "Agent collected email but didn't confirm the booking"
      [] stage = "RECAP_DONE" -> "Agent recapped details but didn't ask for final confirmation"
      [] stage = "CONFIRMATION_ASKED" ->
            "Agent asked for confirmation but customer didn't respond or declined"
      [] OTHER ->
            "Conversation incomplete at " \o stage \o " stage ("
                \o ToString(message_count) \o " messages)"

\* steps 3 to 6 of get_failed_at_description
FailedAtConversation(stage, transcripts, agent_messages, customer_messages) ==
    IF /\ customer_messages # <<>>
       /\ agent_messages # <<>>
       /\ LastIndexOf(transcripts, "customer") > LastIndexOf(transcripts, "agent")
    THEN "Agent stopped responding after customer's last message"
    ELSE IF any_in(decline_patterns, LowerText(customer_messages))
    THEN "Customer declined to proceed with booking"
    ELSE IF Len(transcripts) < 5
    THEN "Conversation ended after only " \o ToString(Len(transcripts))
            \o " messages - agent or customer disconnected"
    ELSE IF LastThreeAlike(agent_messages, 50)
    THEN "Agent stuck repeating the same message"
    ELSE stage_context(stage, Len(transcripts))

\* the text of step 1 for the raw value the agent gave
InvalidNumberText(raw_booking_number) ==
    IF str_lower(raw_booking_number) = "number"
    THEN "Agent said 'number' instead of providing actual booking number"
    ELSE "Agent provided invalid booking number '" \o raw_booking_number \o "'"

\* variant: the technical phrases are looked for before the invalid number
FailedAtDetail_technical_first(stage, transcripts, agent_messages, customer_messages) ==
    With(TechnicalHits(LowerText(agent_messages)), LAMBDA hits :
        IF hits # {} THEN technical_patterns[First(hits)][2]
        ELSE With(extract_raw_booking_number(transcripts), LAMBDA raw_booking_number :
            IF Truthy(raw_booking_number)
                  /\ ~Truthy(extract_booking_number(transcripts, FALSE))
            THEN InvalidNumberText(raw_booking_number.val)
            ELSE FailedAtConversation(stage, transcripts, agent_messages,
                                      customer_messages)))

\* steps 1 to 6 of get_failed_at_description, for a transcript of 2 or more
FailedAtDetail(stage, transcripts, agent_messages, customer_messages) ==
    With(extract_raw_booking_number(transcripts), LAMBDA raw_booking_number :
        IF Truthy(raw_booking_number) /\ ~Truthy(extract_booking_number(transcripts, FALSE))
        THEN InvalidNumberText(raw_booking_number.val)
        ELSE With(TechnicalHits(LowerText(agent_messages)), LAMBDA hits :
            IF hits # {} THEN technical_patterns[First(hits)][2]
            ELSE FailedAtConversation(stage, transcripts, agent_messages,
                                      customer_messages)))

\* variant: only the empty transcript is set aside, not the single utterance
get_failed_at_description_empty_only(stage, transcripts) ==
    IF transcripts = <<>>
    THEN "Conversation ended prematurely - no meaningful interaction"
    ELSE FailedAtDetail(stage, transcripts, RoleContents(transcripts, "agent"),
                        RoleContents(transcripts, "customer"))

get_failed_at_description(stage, transcripts) ==
    IF Len(transcripts) < 2
    THEN "Conversation ended prematurely - no meaningful interaction"
    ELSE FailedAtDetail(stage, transcripts, RoleContents(transcripts, "agent"),
                        RoleContents(transcripts, "customer"))

(***************************************************************************)
(* booking/stages.py: call end                                             *)
(***************************************************************************)
customer_endings == <<
    "goodbye", "bye", "good bye", "bye bye",
    "thank you for your help", "thanks for your help",
    "i'll call back", "call you back"
>>

agent_endings == <<
    "have a wonderful", "have a great", "have a lovely",
    "thank you for calling", "goodbye", "take care",
    "enjoy your stay", "look forward to",
    "i understand", "i apologize",
    "email you all the details", "email you the details"
>>

\* transcripts[-5:] if len(transcripts) >= 5 else transcripts
recent_messages(transcripts) ==
    IF Len(transcripts) >= 5
    THEN SubSeq(transcripts, Len(transcripts) - 4, Len(transcripts))
    ELSE transcripts

\* the two flags is_call_ended computes from the recent messages
customer_ended(recent) == any_in(customer_endings, LowerText(RoleContents(recent, "customer")))
agent_acknowledged(recent) == any_in(agent_endings, LowerText(RoleContents(recent, "agent")))

\* variant: the whole transcript is looked at, not its last five utterances
is_call_ended_whole(transcripts) ==
    IF Len(transcripts) < 3 THEN FALSE
    ELSE customer_ended(transcripts)

is_call_ended(transcripts) ==
    IF Len(transcripts) < 3 THEN FALSE
    ELSE IF customer_ended(recent_messages(transcripts)) THEN TRUE
    ELSE \/ customer_ended(recent_messages(transcripts))
         \/ /\ agent_acknowledged(recent_messages(transcripts))
            /\ customer_ended(recent_messages(transcripts))

(***************************************************************************)
(* booking/stages.py: stage progression                                    *)
(***************************************************************************)
\* sep.join(parts)
str_join_sep(sep, parts) ==
    str_concat([i \in 1..(2 * Len(parts) - 1) |->
                    IF i % 2 = 1 THEN parts[(i + 1) \div 2] ELSE sep])

\* the 0-based indices of the utterances a sampled prefix ends with
sample_points(n) == <<n \div 4, n \div 2, (3 * n) \div 4, n - 1>>

required_stages == <<"NAME_COLLECTED", "PHONE_COLLECTED", "RESORT_SELECTED", "DATES_PROVIDED">>

Invalid(error_message) == [is_valid |-> FALSE, error_message |-> Some(error_message)]
Valid == [is_valid |-> TRUE, error_message |-> None]

\* if final_stage == "BOOKING_CONFIRMED": the required stages held to be missing
missing_required(transcripts, seen_stages) ==
    SelectSeq(required_stages, LAMBDA required :
        /\ \A k \in DOMAIN seen_stages : seen_stages[k] # required
        /\ get_conversation_stage(transcripts) # "BOOKING_CONFIRMED")

\* what follows the loop over the sample points
CheckRequired(transcripts, seen_stages) ==
    IF (IF seen_stages # <<>> THEN seen_stages[Len(seen_stages)] ELSE "GREETING")
            = "BOOKING_CONFIRMED"
    THEN With(missing_required(transcripts, seen_stages), LAMBDA missing :
            IF missing # <<>>
            THEN Invalid("Booking confirmed but missing required stages: "
                            \o str_join_sep(", ", missing))
            ELSE Valid)
    ELSE Valid

\* variant: a jump is unrealistic from 6 indices on
UnrealisticJump_over5(current_stage_index, stage_index) ==
    current_stage_index >= 0 /\ stage_index - current_stage_index > 5

\* the check for unrealistic jumps
UnrealisticJump(current_stage_index, stage_index) ==
    current_stage_index >= 0 /\ stage_index - current_stage_index > 4

\* for i in sample_points, from the k-th point on
RECURSIVE SampleFrom(_, _, _, _)
SampleFrom(transcripts, k, current_stage_index, seen_stages) ==
    IF k > Len(sample_points(Len(transcripts)))
    THEN CheckRequired(transcripts, seen_stages)
    ELSE IF sample_points(Len(transcripts))[k] >= Len(transcripts)
    THEN SampleFrom(transcripts, k + 1, current_stage_index, seen_stages)
    ELSE With(get_conversation_stage(
                SubSeq(transcripts, 1, sample_points(Len(transcripts))[k] + 1)),
              LAMBDA stage :
        IF \A s \in DOMAIN CONVERSATION_STEPS : CONVERSATION_STEPS[s] # stage
        THEN SampleFrom(transcripts, k + 1, current_stage_index, Append(seen_stages, stage))
        ELSE IF stage # "BOOKING_CONFIRMED" /\ StageIndex(stage) < current_stage_index
        THEN Invalid("Stage regressed from " \o CONVERSATION_STEPS[current_stage_index + 1]
                        \o " to " \o stage)
        ELSE IF UnrealisticJump(current_stage_index, StageIndex(stage))
        THEN Invalid("Unrealistic jump from " \o CONVERSATION_STEPS[current_stage_index + 1]
                        \o " to " \o stage \o ", skipping "
                        \o ToString(StageIndex(stage) - current_stage_index - 1)
                        \o " stages")
        ELSE SampleFrom(transcripts, k + 1,
                        IF StageIndex(stage) > current_stage_index
                        THEN StageIndex(stage) ELSE current_stage_index,
                        Append(seen_stages, stage)))

validate_stage_progression(transcripts) ==
    IF transcripts = <<>> THEN Valid
    ELSE SampleFrom(transcripts, 1, -1, <<>>)

(***************************************************************************)
(* booking/sanity_checks.py                                                *)
(***************************************************************************)
\* for i, t in enumerate(transcripts), from the i-th utterance on
RECURSIVE TurnIssuesFrom(_, _, _, _)
TurnIssuesFrom(transcripts, i, consecutive_same_speaker, last_speaker) ==
    IF i > Len(transcripts) THEN <<>>
    ELSE IF Some(transcripts[i].role) = last_speaker
    THEN (IF consecutive_same_speaker + 1 >= 3
          THEN <<"Speaker " \o transcripts[i].role \o " spoke "
                    \o ToString(consecutive_same_speaker + 2) \o " times in a row">>
          ELSE <<>>)
         \o TurnIssuesFrom(transcripts, i + 1, consecutive_same_speaker + 1,
                           Some(transcripts[i].role))
    ELSE TurnIssuesFrom(transcripts, i + 1, 0, Some(transcripts[i].role))

check_turn_alternation(transcripts) == TurnIssuesFrom(transcripts, 1, 0, None)

\* the issue, if any, check_message_content_quality raises for one message
ContentIssue(t) ==
    IF t.content = "" \/ Len(str_strip(t.content)) = 0
    THEN <<"Empty message from " \o t.role>>
    ELSE IF Len(str_strip(t.content)) < 2
    THEN <<"Suspiciously short message from " \o t.role>>
    ELSE <<>>

RECURSIVE ContentIssuesFrom(_, _)
ContentIssuesFrom(transcripts, i) ==
    IF i > Len(transcripts) THEN <<>>
    ELSE ContentIssue(transcripts[i]) \o ContentIssuesFrom(transcripts, i + 1)

check_message_content_quality(transcripts) == ContentIssuesFrom(transcripts, 1)

check_speaker_balance(transcripts) ==
    IF Len(RoleContents(transcripts, "agent")) = 0 THEN <<"No agent messages found">>
    ELSE IF Len(RoleContents(transcripts, "customer")) = 0
    THEN <<"No customer messages found">>
    ELSE <<>>

check_repetition(transcripts) ==
    IF LastThreeAlike(RoleContents(transcripts, "agent"), 100)
    THEN <<"Agent stuck repeating same message">>
    ELSE <<>>

check_conversation_length(transcripts) ==
    IF Len(transcripts) > 100
    THEN <<"Unusually long conversation (" \o ToString(Len(transcripts)) \o " messages)">>
    ELSE IF Len(transcripts) < 10
    THEN <<"Unusually short conversation (" \o ToString(Len(transcripts)) \o " messages)">>
    ELSE <<>>

\* variant: a content issue makes the conversation not sane
check_conversation_sanity_content(transcripts) ==
    IF transcripts = <<>>
    THEN [is_sane |-> FALSE, warnings |-> <<"Conversation is empty - no messages">>]
    ELSE [is_sane  |-> /\ ~(Len(transcripts) < 4)
                       /\ check_turn_alternation(transcripts) = <<>>
                       /\ check_message_content_quality(transcripts) = <<>>,
          warnings |->
              (IF Len(transcripts) < 4
               THEN <<"Very short conversation (" \o ToString(Len(transcripts))
                        \o " messages) - may indicate early termination">>
               ELSE <<>>)
              \o check_turn_alternation(transcripts)
              \o check_message_content_quality(transcripts)
              \o check_speaker_balance(transcripts)
              \o check_repetition(transcripts)
              \o check_conversation_length(transcripts)]

check_conversation_sanity(transcripts) ==
    IF transcripts = <<>>
    THEN [is_sane |-> FALSE, warnings |-> <<"Conversation is empty - no messages">>]
    ELSE [is_sane  |-> ~(Len(transcripts) < 4) /\ check_turn_alternation(transcripts) = <<>>,
          warnings |->
              (IF Len(transcripts) < 4
               THEN <<"Very short conversation (" \o ToString(Len(transcripts))
                        \o " messages) - may indicate early termination">>
               ELSE <<>>)
              \o check_turn_alternation(transcripts)
              \o check_message_content_quality(transcripts)
              \o check_speaker_balance(transcripts)
              \o check_repetition(transcripts)
              \o check_conversation_length(transcripts)]

(***************************************************************************)
(* booking/state_machine.py                                                *)
(***************************************************************************)
ConversationState == {CONVERSATION_STEPS[i] : i \in DOMAIN CONVERSATION_STEPS}

STATE_TRANSITIONS ==
    [state \in ConversationState |->
        CASE state = "GREETING" -> <<"NAME_COLLECTED", "PHONE_COLLECTED">>
          [] state = "NAME_COLLECTED" -> <<"PHONE_COLLECTED">>
          [] state = "PHONE_COLLECTED" -> <<"RESORT_SELECTED">>
          [] state = "RESORT_SELECTED" -> <<"DATES_PROVIDED">>
          [] state = "DATES_PROVIDED" -> <<"OCCUPANCY_CHECKED", "ROOM_POSITIONED">>
          [] state = "OCCUPANCY_CHECKED" -> <<"EXPERIENCE_INTENT", "ROOM_POSITIONED">>
          [] state = "EXPERIENCE_INTENT" -> <<"ROOM_POSITIONED">>
          [] state = "ROOM_POSITIONED" -> <<"RATE_QUOTED", "EXPERIENCE_SHAPED">>
          [] state = "RATE_QUOTED" ->
                <<"EXPERIENCE_SHAPED", "OCCASION_ASKED", "EMAIL_COLLECTED">>
          [] state = "EXPERIENCE_SHAPED" -> <<"OCCASION_ASKED", "EMAIL_COLLECTED">>
          [] state = "OCCASION_ASKED" -> <<"EMAIL_COLLECTED">>
          [] state = "EMAIL_COLLECTED" -> <<"RECAP_DONE", "CONFIRMATION_ASKED">>
          [] state = "RECAP_DONE" -> <<"CONFIRMATION_ASKED">>
          [] state = "CONFIRMATION_ASKED" -> <<"BOOKING_CONFIRMED">>
          [] state = "BOOKING_CONFIRMED" -> <<>>]

\* new_state in STATE_TRANSITIONS.get(current_state, [])
\* variant: a confirmed booking can be reopened
valid_next_states_reopened(state) ==
    IF state = "BOOKING_CONFIRMED"
    THEN {"CONFIRMATION_ASKED"}
    ELSE {STATE_TRANSITIONS[state][k] : k \in DOMAIN STATE_TRANSITIONS[state]}

\* variant: a quoted rate leads straight to the confirmation question
valid_next_states_shortcut(state) ==
    {STATE_TRANSITIONS[state][k] : k \in DOMAIN STATE_TRANSITIONS[state]}
        \cup (IF state = "RATE_QUOTED" THEN {"CONFIRMATION_ASKED"} ELSE {})

\* variant: the dates lead straight to the rate
valid_next_states_leap(state) ==
    {STATE_TRANSITIONS[state][k] : k \in DOMAIN STATE_TRANSITIONS[state]}
        \cup (IF state = "DATES_PROVIDED" THEN {"RATE_QUOTED"} ELSE {})

valid_next_states(state) == {STATE_TRANSITIONS[state][k] : k \in DOMAIN STATE_TRANSITIONS[state]}

(***************************************************************************)
(* criteria_evaluator.py                                                   *)
(***************************************************************************)
LLM_CRITERIA_KEYWORDS == <<"empathy", "patience", "retention", "sensitivity", "courteous">>

\* "\n".join(f"{t['role']}: {t['content']}" for t in transcripts)
conversation_text(transcripts) ==
    str_join_sep("\n", [i \in DOMAIN transcripts |->
                            transcripts[i].role \o ": " \o transcripts[i].content])

\* what the LLM judge does when it is asked
JudgeAnswers(text) == [kind |-> "answers", text |-> text]
JudgeDisabled == [kind |-> "disabled", text |-> ""]
JudgeWithoutKey == [kind |-> "no_key", text |-> ""]
JudgeRaises == [kind |-> "raises", text |-> ""]

\* variant: the judge's text is returned as it comes
evaluate_with_llm_unfiltered(criterion_name, judge) ==
    IF judge.kind = "disabled" THEN None
    ELSE IF judge.kind = "no_key" THEN None
    ELSE IF judge.kind = "raises" THEN None
    ELSE Some(str_upper(str_strip(judge.text)))

\* _evaluate_with_llm
evaluate_with_llm(criterion_name, judge) ==
    IF judge.kind = "disabled" THEN None
    ELSE IF judge.kind = "no_key" THEN None
    ELSE IF judge.kind = "raises" THEN None
    ELSE With(str_upper(str_strip(judge.text)), LAMBDA result :
             IF result \in {"PASS", "FAIL"} THEN Some(result) ELSE None)

\* the evaluators of the fallback that the scenario's criteria reach
evaluate_alternative_offered(conversation) ==
    IF any_in(<<"kodaikanal", "kodai", "other property", "alternative">>, conversation)
    THEN "PASS" ELSE "FAIL"

evaluate_budget_sensitivity(conversation) ==
    IF ~any_in(<<"budget", "31000", "31,000">>, conversation) THEN "N/A"
    ELSE IF any_in(<<"40000", "40,000">>, conversation) THEN "FAIL"
    ELSE "PASS"

evaluate_agent_patience(conversation) ==
    IF any_in(<<"happy to repeat", "let me repeat", "no problem", "of course", "certainly">>,
              conversation)
    THEN "PASS" ELSE "N/A"

\* the branch of evaluate_criteria's if/elif chain a criterion name takes
pattern_branch(name) ==
    LET has(word) == str_contains(name, word)
    IN  IF has("name") /\ has("captured") THEN "name_capture"
        ELSE IF has("phone") /\ has("captured") THEN "phone_capture"
        ELSE IF has("email") /\ has("captured") THEN "email_capture"
        ELSE IF has("empathy") THEN "empathy"
        ELSE IF has("policy") /\ has("child") THEN "child_policy"
        ELSE IF has("alternative") /\ has("offered") THEN "alternative_offered"
        ELSE IF has("closing") /\ has("courteous") THEN "courteous_closing"
        ELSE IF has("capacity") /\ has("superior") THEN "superior_capacity"
        ELSE IF has("suite") /\ has("suggested") THEN "suite_suggested"
        ELSE IF has("extra_bed") THEN "extra_bed_policy"
        ELSE IF has("activity_pricing") THEN "activity_pricing"
        ELSE IF has("pricing") /\ has("clear") THEN "pricing_clarity"
        ELSE IF has("meal_plan") THEN "meal_plan_explanation"
        ELSE IF has("budget") /\ has("sensitivity") THEN "budget_sensitivity"
        ELSE IF has("unrealistic_pricing") THEN "no_unrealistic_pricing"
        ELSE IF has("negotiation") THEN "negotiation_handling"
        ELSE IF has("patience") THEN "agent_patience"
        ELSE IF has("confirmation_sent") THEN "booking_confirmation"
        ELSE "N/A"

\* the pattern-based verdict of a criterion, for the branches the scenario's
\* criteria take
pattern_result(criterion_name, conversation_text_lower) ==
    With(pattern_branch(str_lower(criterion_name)), LAMBDA branch :
        CASE branch = "alternative_offered" ->
                evaluate_alternative_offered(conversation_text_lower)
          [] branch = "budget_sensitivity" ->
                evaluate_budget_sensitivity(conversation_text_lower)
          [] branch = "agent_patience" -> evaluate_agent_patience(conversation_text_lower)
          [] branch = "N/A" -> "N/A")

\* is_subjective
is_subjective(criterion_name) == any_in(LLM_CRITERIA_KEYWORDS, str_lower(criterion_name))

\* one round of the loop of evaluate_criteria: the verdict of a criterion
criterion_verdict(criterion_name, transcripts, judge) ==
    With(IF is_subjective(criterion_name) THEN evaluate_with_llm(criterion_name, judge)
         ELSE None, LAMBDA llm_result :
        IF Truthy(llm_result) THEN llm_result.val
        ELSE pattern_result(criterion_name, str_lower(conversation_text(transcripts))))

(***************************************************************************)
(* run_scenario_eval.py: ScenarioRunner.get_results                        *)
(***************************************************************************)
\* a Python value with its type: stage arguments are str, transcripts are list
PyStr(s) == [type |-> "str", val |-> s]
PyList(l) == [type |-> "list", val |-> l]

\* get_stage_progress(stage): a value of another type is no element of
\* CONVERSATION_STEPS
get_stage_progress(stage) ==
    IF stage.type = "str" /\ \E i \in DOMAIN CONVERSATION_STEPS : CONVERSATION_STEPS[i] = stage.val
    THEN <<StageIndex(stage.val) + 1, Len(CONVERSATION_STEPS)>>
    ELSE <<0, Len(CONVERSATION_STEPS)>>

\* get_failed_at_description(stage, transcripts) with the arguments as they are
\* passed: transcripts is None when left out, and `not transcripts` then holds
get_failed_at_description_call(stage, optional_transcripts) ==
    IF ~optional_transcripts.some
    THEN "Conversation ended prematurely - no meaningful interaction"
    ELSE get_failed_at_description(stage.val, optional_transcripts.val)

\* variant: the stage is inferred and handed over with the transcript
get_results_staged(transcript_dicts) ==
    With(is_booking_confirmed(transcript_dicts), LAMBDA booking_confirmed :
    With(get_conversation_stage(transcript_dicts), LAMBDA stage :
        [booking_confirmed |-> booking_confirmed,
         booking_number |-> extract_booking_number(transcript_dicts, FALSE),
         conversation_stage |-> stage,
         stage_progress |-> get_stage_progress(PyStr(stage)),
         failed_at |-> IF ~booking_confirmed
                       THEN Some(get_failed_at_description_call(PyStr(stage),
                                                                Some(transcript_dicts)))
                       ELSE None]))

\* ScenarioRunner.get_results: the success_results of the run
get_results(transcript_dicts) ==
    With(is_booking_confirmed(transcript_dicts), LAMBDA booking_confirmed :
        [booking_confirmed |-> booking_confirmed,
         booking_number |-> extract_booking_number(transcript_dicts, FALSE),
         conversation_stage |-> get_conversation_stage(transcript_dicts),
         stage_progress |-> get_stage_progress(PyList(transcript_dicts)),
         failed_at |-> IF ~booking_confirmed
                       THEN Some(get_failed_at_description_call(PyList(transcript_dicts), None))
                       ELSE None])

(***************************************************************************)
(* bidirectional_test.py: VoiceBridge, the transcription buffers           *)
(***************************************************************************)
\* the characters c with ord(c) < 128 that the provider's fragments are made of
AsciiChars == LetterChars \cup DigitChars \cup SpaceChars \cup {".", ",", "?", "!", "'", "-"}

\* ''.join(c for c in buffer if ord(c) < 128 or c.isspace())
clean_text(buffer) == str_remove(buffer, {CharAt(buffer, i) : i \in 1..Len(buffer)} \ AsciiChars)

\* text.split(sep)
RECURSIVE str_split(_, _)
str_split(text, sep) ==
    With(str_find(text, sep), LAMBDA at :
        IF at = 0 THEN <<text>>
        ELSE <<SubSeq(text, 1, at - 1)>>
                \o str_split(SubSeq(text, at + Len(sep), Len(text)), sep))

\* s.capitalize(): the first character upper case, the others lower case
str_capitalize(s) ==
    IF s = "" THEN "" ELSE ToUpperCh(CharAt(s, 1)) \o str_lower(SubSeq(s, 2, Len(s)))

\* normalize_text
normalize_text(text) ==
    IF text = "" THEN text
    ELSE With(str_split(text, ". "), LAMBDA sentences :
            str_join_sep(". ",
                [k \in 1..Len(SelectSeq(sentences, LAMBDA s : str_strip(s) # "")) |->
                    str_capitalize(str_strip(
                        SelectSeq(sentences, LAMBDA s : str_strip(s) # "")[k]))]))

\* the flush of a buffer, in handle_gemini and in silence_monitor: the
\* utterances it appends to self.transcripts, and the buffer after it
flush_buffer(role, buffer) ==
    IF str_strip(buffer) = "" THEN [appended |-> <<>>, buffer |-> buffer]
    ELSE [appended |-> IF str_strip(clean_text(buffer)) # ""
                       THEN <<[role |-> role,
                               content |-> normalize_text(str_strip(clean_text(buffer)))]>>
                       ELSE <<>>,
          buffer |-> ""]

(***************************************************************************)
(* config.py and orchestrator_livekit_backup.py: the keep-alive prompts    *)
(* and the polling loop of HotelBookingOrchestrator.run                    *)
(***************************************************************************)
INACTIVITY_TIMEOUT == 45
AGENT_RESPONSE_TIMEOUT == 20
MAX_KEEPALIVE_ATTEMPTS == 3
\* await asyncio.sleep(3) of the polling loop
POLL_SECONDS == 3

strong_farewells == <<"goodbye", "bye bye", "take care">>

cannot_proceed_phrases == <<
    "unable to complete", "cannot complete", "can't complete",
    "unable to finalize", "cannot finalize", "can't finalize",
    "unable to proceed", "cannot proceed", "can't proceed",
    "preventing me from", "not able to", "not permitted",
    "call us back", "call back later", "try again later",
    "technical issue", "system issue", "technical difficulty",
    "i'm unable to", "i am unable to", "unable to book"
>>

farewell_phrases == <<
    "goodbye", "bye", "bye bye", "take care",
    "have a wonderful", "have a great", "have a lovely",
    "thank you for calling", "thanks for calling",
    "enjoy your stay", "look forward to hosting",
    "looking forward to", "see you soon"
>>

agent_farewells == <<"goodbye", "bye", "take care", "have a wonderful", "have a great">>
customer_farewells == <<"goodbye", "bye", "thank you so much">>

\* HotelBookingOrchestrator._is_conversation_ending
is_conversation_ending(transcripts) ==
    IF Len(transcripts) < 3 THEN FALSE
    ELSE IF is_booking_confirmed(transcripts) THEN TRUE
    ELSE With(recent_messages(transcripts), LAMBDA recent :
         With(LowerText(RoleContents(recent, "customer")), LAMBDA recent_customer :
         With(LowerText(RoleContents(recent, "agent")), LAMBDA recent_agent :
            \/ any_in(strong_farewells, recent_customer)
            \/ any_in(cannot_proceed_phrases, recent_agent)
            \/ Cardinality({k \in DOMAIN farewell_phrases :
                                str_contains(LowerText(recent), farewell_phrases[k])}) >= 2
            \/ /\ any_in(agent_farewells, recent_agent)
               /\ any_in(customer_farewells, recent_customer))))

\* variant: the prompts are not counted
keepalive_due_uncounted(since_activity, attempts, since_keepalive, conversation_ending) ==
    /\ since_activity >= AGENT_RESPONSE_TIMEOUT
    /\ since_keepalive >= AGENT_RESPONSE_TIMEOUT
    /\ ~conversation_ending

\* run(): the condition of the polling loop for a keep-alive prompt
keepalive_due(since_activity, attempts, since_keepalive, conversation_ending) ==
    /\ since_activity >= AGENT_RESPONSE_TIMEOUT
    /\ attempts < MAX_KEEPALIVE_ATTEMPTS
    /\ since_keepalive >= AGENT_RESPONSE_TIMEOUT
    /\ ~conversation_ending

\* a time difference one round of the loop later; from the cap on, the
\* comparisons of the loop no longer tell the values apart
later(seconds, cap) ==
    IF seconds + POLL_SECONDS >= cap THEN cap ELSE seconds + POLL_SECONDS

(***************************************************************************)
(* State.  A call: the transport appends finished utterances to the        *)
(* transcript and the classifier is polled on every transcript so far.     *)
(* A validation: a candidate code is put together and validated.           *)
(***************************************************************************)
VARIABLES
    transcripts,    \* the transcript so far: utterances [role, content]
    stages,         \* get_conversation_stage of every prefix, shortest first
    candidate,      \* the candidate handed to is_valid_booking_number
    pieces,         \* the number of pieces the candidate was put together from
    accepted,       \* what is_valid_booking_number returned for it
    ended,          \* what is_call_ended returned last
    description,    \* what get_failed_at_description returned last
    sanity,         \* what check_conversation_sanity returned last
    progression,    \* what validate_stage_progression returned last
    current_state,          \* ConversationStateMachine.current_state
    state_history,          \* ConversationStateMachine.state_history
    invalid_transitions,    \* ConversationStateMachine.invalid_transitions
    returned,       \* the last call of transition(): <<[new_state, result]>>
    answers,        \* per core query, its last result on this transcript: <<>> or <<result>>
    results,        \* what get_results returned for the run: <<>> or <<success_results>>
    pending,            \* evaluate_criteria: the criteria the loop has yet to reach
    criteria_results,   \* evaluate_criteria.results, in the order of the entries
    llm_calls,          \* the calls of the LLM judge so far, and what it did
    agent_buffer,       \* VoiceBridge.agent_buffer
    customer_buffer,    \* VoiceBridge.customer_buffer
    is_listening,       \* VoiceBridge.is_listening
    speech_heard,       \* VoiceBridge.last_speech_time > 0
    gemini_done,        \* VoiceBridge.gemini_done_time > 0
    va_disconnected,    \* VoiceBridge.va_disconnected
    run_position,       \* where VoiceBridge.run() is: "constructed", "running" or "returned"
    keepalive_attempts,     \* HotelBookingOrchestrator.keepalive_attempts
    time_since_activity,    \* current_time - last_activity_time, in seconds, up to its cap
    time_since_keepalive,   \* current_time - last_keepalive_time, up to its cap, float('inf') included
    elapsed,                \* the seconds since start_time, up to the timeout
    provider_open,          \* the websocket gemini_ws is open
    polling,                \* the polling loop of run() has not left its while True
    prompts,                \* the keep-alive prompts sent since the last agent utterance
    polled,                 \* what the last round of the polling loop did, and whether the
                            \* rounds so far are odd in number
    judged                  \* what the tests of the polling loop return on the transcript

vars == <<transcripts, stages, candidate, pieces, accepted, ended, description, sanity,
          progression, current_state, state_history, invalid_transitions, returned,
          answers, results, pending, criteria_results, llm_calls,
          agent_buffer, customer_buffer, is_listening, speech_heard, gemini_done,
          va_disconnected, run_position,
          keepalive_attempts, time_since_activity, time_since_keepalive, elapsed,
          provider_open, polling, prompts, polled, judged>>

\* the results of the polled functions, and the state machine object
reports == <<ended, description, sanity, progression>>
machine == <<current_state, state_history, invalid_transitions, returned>>
queries == <<answers>>
runner == <<results>>
judging == <<pending, criteria_results, llm_calls>>
buffers == <<agent_buffer, customer_buffer>>
bridge == <<buffers, is_listening, speech_heard, gemini_done, va_disconnected, run_position>>
timers == <<time_since_activity, time_since_keepalive, elapsed>>
orchestrator == <<keepalive_attempts, timers, provider_open, polling, prompts, polled, judged>>
session == <<queries, runner, judging, bridge, orchestrator>>
\* all of the session but one part
beside_queries == <<runner, judging, bridge, orchestrator>>
beside_runner == <<queries, judging, bridge, orchestrator>>
beside_judging == <<queries, runner, bridge, orchestrator>>
beside_bridge == <<queries, runner, judging, orchestrator>>
beside_orchestrator == <<queries, runner, judging, bridge>>

\* the functions' results for the empty transcript
NoReports ==
    /\ ended = is_call_ended(<<>>)
    /\ description = get_failed_at_description("GREETING", <<>>)
    /\ sanity = check_conversation_sanity(<<>>)
    /\ progression = validate_stage_progression(<<>>)

\* ConversationStateMachine.__init__
NewMachine ==
    /\ current_state = "GREETING"
    /\ state_history = <<"GREETING">>
    /\ invalid_transitions = <<>>
    /\ returned = <<>>

\* the queries of the core
CoreQueries == {
    "extract_booking_number", "is_booking_confirmed", "get_conversation_stage",
    "is_call_ended", "get_failed_at_description", "check_conversation_sanity" }

\* the value the query returns for a transcript
Answer(query, t) ==
    CASE query = "extract_booking_number" -> extract_booking_number(t, FALSE)
      [] query = "is_booking_confirmed" -> is_booking_confirmed(t)
      [] query = "get_conversation_stage" -> get_conversation_stage(t)
      [] query = "is_call_ended" -> is_call_ended(t)
      [] query = "get_failed_at_description" ->
            get_failed_at_description(get_conversation_stage(t), t)
      [] query = "check_conversation_sanity" -> check_conversation_sanity(t)

NoAnswers == [query \in CoreQueries |-> <<>>]

\* scenario["evaluation_criteria"], in the order of the scenario file
ScenarioCriteria ==
    <<"agent_patience", "alternative_offered", "budget_sensitivity", "retention_attempt">>

\* VoiceBridge.__init__
NewBridge ==
    /\ agent_buffer = ""
    /\ customer_buffer = ""
    /\ is_listening = FALSE
    /\ speech_heard = FALSE
    /\ gemini_done = FALSE
    /\ va_disconnected = FALSE
    /\ run_position = "constructed"

\* the three tests of the polling loop; they depend on the transcript only, and
\* are kept with it
Judgements(t) ==
    [booking_confirmed |-> is_booking_confirmed(t),
     call_ended |-> is_call_ended(t),
     conversation_ending |-> is_conversation_ending(t)]

\* HotelBookingOrchestrator.__init__
NewOrchestrator ==
    /\ keepalive_attempts = 0
    /\ time_since_activity = 0
    /\ time_since_keepalive = AGENT_RESPONSE_TIMEOUT
    /\ elapsed = 0
    /\ provider_open = FALSE
    /\ polling = FALSE
    /\ prompts = 0
    /\ polled = [did |-> "nothing", odd |-> FALSE]
    /\ judged = Judgements(<<>>)

\* nothing asked, evaluated or computed yet
NewSession ==
    /\ answers = NoAnswers
    /\ results = <<>>
    /\ pending = ScenarioCriteria
    /\ criteria_results = <<>>
    /\ llm_calls = <<>>
    /\ NewBridge
    /\ NewOrchestrator

\* bounds of the exploration
MaxUtterances == 3
MaxCues == 2
MaxPieces == 3

Last(seq) == seq[Len(seq)]

Utterance(role, content) ==
    /\ transcripts' = Append(transcripts, [role |-> role, content |-> content])
    /\ stages' = Append(stages, get_conversation_stage(transcripts'))
    /\ UNCHANGED <<candidate, pieces, accepted, reports, machine, session>>

(***************************************************************************)
(* Spec: a call in which the agent confirms, fails or garbles a booking    *)
(***************************************************************************)
AgentSays == {
    "your booking number is 4521",
    "i have confirmed your booking",
    "i've booked your reservation 123456789",
    "successfully booked",
    "your booking number is coorg",
    "let me try again",
    "a way" }

CustomerSays == { "coorg" }

Init ==
    /\ transcripts = <<>>
    /\ stages = <<get_conversation_stage(<<>>)>>
    /\ candidate = ""
    /\ pieces = 0
    /\ accepted = FALSE
    /\ NoReports
    /\ NewMachine
    /\ NewSession

AgentUtterance(content) ==
    /\ Len(transcripts) < MaxUtterances
    /\ Utterance("agent", content)

CustomerUtterance(content) ==
    /\ Len(transcripts) < MaxUtterances
    /\ Utterance("customer", content)

Next ==
    \/ \E content \in AgentSays : AgentUtterance(content)
    \/ \E content \in CustomerSays : CustomerUtterance(content)

Spec == Init /\ [][Next]_vars

(***************************************************************************)
(* SpecStages: a call, from its start or after its opening exchange, in    *)
(* which each utterance carries the cue of one stage                       *)
(***************************************************************************)
Opening == <<[role |-> "agent", content |-> "may i have your name"],
             [role |-> "customer", content |-> "ravi, 2 adults, ravi@mail.in"]>>

StartTranscripts == {<<>>, Opening}

AgentCues == {
    "your booking number is 4521",
    "shall i book",
    "to summarize the total",
    "email",
    "birthday",
    "enjoy the spa",
    "total 5000",
    "cottage",
    "restful",
    "how many guests",
    "name" }

CustomerCues == {
    "2 nights",
    "coorg",
    "98765 43210",
    "ravi@mail.in" }

InitStages ==
    /\ transcripts \in StartTranscripts
    /\ stages = [i \in 1..(Len(transcripts) + 1) |->
                    get_conversation_stage(SubSeq(transcripts, 1, i - 1))]
    /\ candidate = ""
    /\ pieces = 0
    /\ accepted = FALSE
    /\ NoReports
    /\ NewMachine
    /\ NewSession

\* utterances since the start of the observation
CuesSoFar ==
    Len(transcripts) - (IF Len(transcripts) >= Len(Opening)
                           /\ SubSeq(transcripts, 1, Len(Opening)) = Opening
                        THEN Len(Opening) ELSE 0)

AgentCue(content) ==
    /\ CuesSoFar < MaxCues
    /\ Utterance("agent", content)

CustomerCue(content) ==
    /\ CuesSoFar < MaxCues
    /\ Utterance("customer", content)

NextStages ==
    \/ \E content \in AgentCues : AgentCue(content)
    \/ \E content \in CustomerCues : CustomerCue(content)

SpecStages == InitStages /\ [][NextStages]_vars

(***************************************************************************)
(* SpecValidator: a candidate put together piece by piece and validated    *)
(***************************************************************************)
Pieces == {"1", "1234", "12345", "A", "ABCD", "b", "-", " ", "!", "the", "coorg"}

Candidates == {"", "12", "123", "coorg", "9876543210"}

InitValidator ==
    /\ candidate \in Candidates
    /\ pieces = 0
    /\ accepted = is_valid_booking_number(candidate)
    /\ transcripts = <<>>
    /\ stages = <<get_conversation_stage(<<>>)>>
    /\ NoReports
    /\ NewMachine
    /\ NewSession

Validate(piece) ==
    /\ pieces < MaxPieces
    /\ candidate' = candidate \o piece
    /\ pieces' = pieces + 1
    /\ accepted' = is_valid_booking_number(candidate')
    /\ UNCHANGED <<transcripts, stages, reports, machine, session>>

NextValidator == \E piece \in Pieces : Validate(piece)

SpecValidator == InitValidator /\ [][NextValidator]_vars

(***************************************************************************)
(* SpecExtraction: a call in which the agent spells a code letter by       *)
(* letter or gives a number without a confirmation phrase                  *)
(***************************************************************************)
MaxSpelledUtterances == 3

AgentSpells == {
    "T. C. W. F. O. is your code",
    "T C W F O",
    "your booking number is 4521",
    "booked reference 4521",
    "the code is 4521",
    "a way" }

CustomerHears == { "ok" }

AgentSpeller(content) ==
    /\ Len(transcripts) < MaxSpelledUtterances
    /\ Utterance("agent", content)

CustomerHearer(content) ==
    /\ Len(transcripts) < MaxSpelledUtterances
    /\ Utterance("customer", content)

NextExtraction ==
    \/ \E content \in AgentSpells : AgentSpeller(content)
    \/ \E content \in CustomerHears : CustomerHearer(content)

SpecExtraction == Init /\ [][NextExtraction]_vars

(***************************************************************************)
(* SpecCallEnd: a call in which either side may say a closing phrase, with *)
(* is_call_ended polled on every transcript so far                         *)
(***************************************************************************)
MaxCallLength == 6

AgentCloses == { "take care", "one moment" }
CustomerCloses == { "thanks for your help", "ok" }

InitCallEnd ==
    /\ transcripts = <<>>
    /\ stages = <<get_conversation_stage(<<>>)>>
    /\ candidate = ""
    /\ pieces = 0
    /\ accepted = FALSE
    /\ NoReports
    /\ NewMachine
    /\ NewSession

CallEndPolled(role, content) ==
    /\ Len(transcripts) < MaxCallLength
    /\ transcripts' = Append(transcripts, [role |-> role, content |-> content])
    /\ ended' = is_call_ended(transcripts')
    /\ UNCHANGED <<stages, candidate, pieces, accepted, description, sanity, progression,
                   machine, session>>

AgentClosing(content) == CallEndPolled("agent", content)
CustomerClosing(content) == CallEndPolled("customer", content)

NextCallEnd ==
    \/ \E content \in AgentCloses : AgentClosing(content)
    \/ \E content \in CustomerCloses : CustomerClosing(content)

SpecCallEnd == InitCallEnd /\ [][NextCallEnd]_vars

(***************************************************************************)
(* SpecDiagnosis: a call that fails, from its start or after a stalled     *)
(* opening, with the failure description computed on every transcript      *)
(***************************************************************************)
MaxDiagnosisUtterances == 2

Stalled == <<[role |-> "agent", content |-> "welcome to tamara"],
             [role |-> "customer", content |-> "hello"],
             [role |-> "agent", content |-> "welcome to tamara"]>>

StartDiagnosis == {<<>>, Stalled}

AgentFails == {
    "your booking number is number",
    "your booking number is coorg",
    "your booking number is 4521",
    "i'm encountering a technical issue",
    "welcome to tamara",
    "Welcome to Tamara" }

CustomerReacts == { "cancel", "hello" }

InitDiagnosis ==
    /\ transcripts \in StartDiagnosis
    /\ stages = [i \in 1..(Len(transcripts) + 1) |->
                    get_conversation_stage(SubSeq(transcripts, 1, i - 1))]
    /\ description = get_failed_at_description(Last(stages), transcripts)
    /\ ended = is_call_ended(<<>>)
    /\ sanity = check_conversation_sanity(<<>>)
    /\ progression = validate_stage_progression(<<>>)
    /\ candidate = ""
    /\ pieces = 0
    /\ accepted = FALSE
    /\ NewMachine
    /\ NewSession

\* the utterances since the start of the exploration
FailuresSoFar == Len(transcripts) - (IF Len(transcripts) >= Len(Stalled)
                                        /\ SubSeq(transcripts, 1, Len(Stalled)) = Stalled
                                     THEN Len(Stalled) ELSE 0)

Diagnosed(role, content) ==
    /\ FailuresSoFar < MaxDiagnosisUtterances
    /\ transcripts' = Append(transcripts, [role |-> role, content |-> content])
    /\ stages' = Append(stages, get_conversation_stage(transcripts'))
    /\ description' = get_failed_at_description(Last(stages'), transcripts')
    /\ UNCHANGED <<candidate, pieces, accepted, ended, sanity, progression, machine, session>>

AgentFailing(content) == Diagnosed("agent", content)
CustomerReacting(content) == Diagnosed("customer", content)

NextDiagnosis ==
    \/ \E content \in AgentFails : AgentFailing(content)
    \/ \E content \in CustomerReacts : CustomerReacting(content)

SpecDiagnosis == InitDiagnosis /\ [][NextDiagnosis]_vars

(***************************************************************************)
(* SpecSanity: a call, from its start or after eight alternating turns,    *)
(* in which either side may speak again, say nothing or repeat itself,     *)
(* with the sanity check run on every transcript                           *)
(***************************************************************************)
MaxSanityUtterances == 4

EightTurns == [i \in 1..8 |->
                 IF i % 2 = 1
                 THEN [role |-> "agent", content |-> "turn " \o ToString(i)]
                 ELSE [role |-> "customer", content |-> "yes"]]

StartSanity == {<<>>, EightTurns}

AgentTurns == { "hello", "" }
CustomerTurns == { "yes", "k" }

InitSanity ==
    /\ transcripts \in StartSanity
    /\ sanity = check_conversation_sanity(transcripts)
    /\ stages = <<get_conversation_stage(<<>>)>>
    /\ ended = is_call_ended(<<>>)
    /\ description = get_failed_at_description("GREETING", <<>>)
    /\ progression = validate_stage_progression(<<>>)
    /\ candidate = ""
    /\ pieces = 0
    /\ accepted = FALSE
    /\ NewMachine
    /\ NewSession

\* the utterances since the start of the exploration
TurnsSoFar == Len(transcripts) - (IF Len(transcripts) >= Len(EightTurns)
                                     /\ SubSeq(transcripts, 1, Len(EightTurns)) = EightTurns
                                  THEN Len(EightTurns) ELSE 0)

SanityChecked(role, content) ==
    /\ TurnsSoFar < MaxSanityUtterances
    /\ transcripts' = Append(transcripts, [role |-> role, content |-> content])
    /\ sanity' = check_conversation_sanity(transcripts')
    /\ UNCHANGED <<stages, candidate, pieces, accepted, ended, description, progression,
                   machine, session>>

AgentTurn(content) == SanityChecked("agent", content)
CustomerTurn(content) == SanityChecked("customer", content)

NextSanity ==
    \/ \E content \in AgentTurns : AgentTurn(content)
    \/ \E content \in CustomerTurns : CustomerTurn(content)

SpecSanity == InitSanity /\ [][NextSanity]_vars

(***************************************************************************)
(* SpecProgression: a call whose stages advance, jump or fall back, with   *)
(* the stage progression validated on every transcript                     *)
(***************************************************************************)
MaxProgressionUtterances == 3

AgentMoves == {
    "hello",
    "how many guests",
    "your booking number is 4521",
    "let me try again" }

CustomerMoves == { "2 nights", "coorg" }

ProgressionValidated(role, content) ==
    /\ Len(transcripts) < MaxProgressionUtterances
    /\ transcripts' = Append(transcripts, [role |-> role, content |-> content])
    /\ stages' = Append(stages, get_conversation_stage(transcripts'))
    /\ progression' = validate_stage_progression(transcripts')
    /\ UNCHANGED <<candidate, pieces, accepted, ended, description, sanity, machine, session>>

AgentMove(content) == ProgressionValidated("agent", content)
CustomerMove(content) == ProgressionValidated("customer", content)

NextProgression ==
    \/ \E content \in AgentMoves : AgentMove(content)
    \/ \E content \in CustomerMoves : CustomerMove(content)

SpecProgression == Init /\ [][NextProgression]_vars

(***************************************************************************)
(* SpecMachine: a ConversationStateMachine asked for one state after       *)
(* another                                                                 *)
(***************************************************************************)
MaxInvalidTransitions == 1

\* ConversationStateMachine.transition(new_state)
transition(new_state) ==
    IF new_state = current_state
    THEN /\ returned' = <<[new_state |-> new_state, result |-> TRUE]>>
         /\ UNCHANGED <<current_state, state_history, invalid_transitions>>
    ELSE IF new_state \in valid_next_states(current_state)
    THEN /\ current_state' = new_state
         /\ state_history' = Append(state_history, new_state)
         /\ returned' = <<[new_state |-> new_state, result |-> TRUE]>>
         /\ UNCHANGED invalid_transitions
    ELSE /\ Len(invalid_transitions) < MaxInvalidTransitions
         /\ invalid_transitions' = Append(invalid_transitions, <<current_state, new_state>>)
         /\ returned' = <<[new_state |-> new_state, result |-> FALSE]>>
         /\ UNCHANGED <<current_state, state_history>>

Requested(new_state) ==
    /\ transition(new_state)
    /\ UNCHANGED <<transcripts, stages, candidate, pieces, accepted, reports, session>>

NextMachine == \E new_state \in ConversationState : Requested(new_state)

SpecMachine == Init /\ [][NextMachine]_vars

(***************************************************************************)
(* SpecQueries: the core queries asked in any order between the utterances *)
(* of a call                                                               *)
(***************************************************************************)
MaxQueriedUtterances == 2

AgentTalks == { "Welcome to Tamara Resorts", "your booking number is 4521" }
CustomerTalks == { "hello there" }

\* variant: the query lower-cases the contents in place before it reads them
Asked_in_place(query) ==
    /\ transcripts' = [i \in DOMAIN transcripts |->
                          [transcripts[i] EXCEPT !.content = str_lower(@)]]
    /\ answers' = [answers EXCEPT ![query] = <<Answer(query, transcripts')>>]
    /\ UNCHANGED <<stages, candidate, pieces, accepted, reports, machine, beside_queries>>

\* a call to the query on the transcript: every query reads it, none writes it
Asked(query) ==
    /\ answers' = [answers EXCEPT ![query] = <<Answer(query, transcripts)>>]
    /\ UNCHANGED <<transcripts, stages, candidate, pieces, accepted, reports, machine, beside_queries>>

\* the transport appends an utterance: the answers of the old transcript are dropped
Talked(role, content) ==
    /\ Len(transcripts) < MaxQueriedUtterances
    /\ transcripts' = Append(transcripts, [role |-> role, content |-> content])
    /\ stages' = Append(stages, get_conversation_stage(transcripts'))
    /\ answers' = NoAnswers
    /\ UNCHANGED <<candidate, pieces, accepted, reports, machine, beside_queries>>

AgentTalk(content) == Talked("agent", content)
CustomerTalk(content) == Talked("customer", content)

NextQueries ==
    \/ \E query \in CoreQueries : Asked(query)
    \/ \E content \in AgentTalks : AgentTalk(content)
    \/ \E content \in CustomerTalks : CustomerTalk(content)

SpecQueries == Init /\ [][NextQueries]_vars

(***************************************************************************)
(* SpecResults: a run of a scenario, and its results once the call is over *)
(***************************************************************************)
MaxRunUtterances == 3

AgentRuns == { "i'm encountering a technical issue", "your booking number is 4521" }
CustomerRuns == { "hello", "98765 43210" }

\* the bridge appends a completed utterance while the call is on
RunUtterance(role, content) ==
    /\ results = <<>>
    /\ Len(transcripts) < MaxRunUtterances
    /\ transcripts' = Append(transcripts, [role |-> role, content |-> content])
    /\ stages' = Append(stages, get_conversation_stage(transcripts'))
    /\ UNCHANGED <<candidate, pieces, accepted, reports, machine, session>>

AgentRun(content) == RunUtterance("agent", content)
CustomerRun(content) == RunUtterance("customer", content)

\* run_scenario: runner.get_results() after the call
GetResults ==
    /\ results = <<>>
    /\ results' = <<get_results(transcripts)>>
    /\ UNCHANGED <<transcripts, stages, candidate, pieces, accepted, reports, machine,
                   beside_runner>>

NextResults ==
    \/ \E content \in AgentRuns : AgentRun(content)
    \/ \E content \in CustomerRuns : CustomerRun(content)
    \/ GetResults

SpecResults == Init /\ [][NextResults]_vars

(***************************************************************************)
(* SpecCriteria: the criteria of a scenario evaluated one by one over a    *)
(* finished call, with an LLM judge that may do anything                   *)
(***************************************************************************)
FinishedCalls == {
    <<>>,
    <<[role |-> "agent", content |-> "Of course"],
      [role |-> "customer", content |-> "my budget is 31000"],
      [role |-> "agent", content |-> "we have Kodai at 40000"]>>,
    <<[role |-> "customer", content |-> "my budget is 31,000"],
      [role |-> "agent", content |-> "Certainly"]>> }

JudgeBehaviours ==
    {JudgeDisabled, JudgeWithoutKey, JudgeRaises}
        \cup {JudgeAnswers(text) : text \in {"PASS", "FAIL", " pass\n", "PASS.", "Maybe"}}

InitCriteria ==
    /\ transcripts \in FinishedCalls
    /\ stages = [i \in 1..(Len(transcripts) + 1) |->
                    get_conversation_stage(SubSeq(transcripts, 1, i - 1))]
    /\ candidate = ""
    /\ pieces = 0
    /\ accepted = FALSE
    /\ NoReports
    /\ NewMachine
    /\ NewSession

\* evaluate_criteria: one round of its loop, the judge doing as it likes
CriterionEvaluated(judge) ==
    /\ pending # <<>>
    /\ pending' = Tail(pending)
    /\ criteria_results' =
          Append(criteria_results,
                 [criterion |-> Head(pending),
                  result |-> criterion_verdict(Head(pending), transcripts, judge)])
    /\ llm_calls' = IF is_subjective(Head(pending))
                    THEN Append(llm_calls, [criterion |-> Head(pending), judge |-> judge])
                    ELSE llm_calls
    /\ UNCHANGED <<transcripts, stages, candidate, pieces, accepted, reports, machine,
                   beside_judging>>

NextCriteria == \E judge \in JudgeBehaviours : CriterionEvaluated(judge)

SpecCriteria == InitCriteria /\ [][NextCriteria]_vars

(***************************************************************************)
(* SpecBridge: VoiceBridge.run() of a scenario: the provider's messages,   *)
(* the silence monitor, the end of the call and get_results after it       *)
(***************************************************************************)
MaxBridgeUtterances == 1
MaxBufferLength == 27

AgentFragments == { "your booking ", "number is 4521" }
CustomerFragments == { "ok. THANK you " }

\* data["serverContent"] of a message of the provider
ServerContents ==
    { [turnComplete |-> tc, interrupted |-> FALSE, outputTranscription |-> "",
       inputTranscription |-> "", audio |-> FALSE] : tc \in {TRUE} }
    \cup { [turnComplete |-> FALSE, interrupted |-> TRUE, outputTranscription |-> "",
            inputTranscription |-> "", audio |-> FALSE] }
    \cup { [turnComplete |-> FALSE, interrupted |-> FALSE, outputTranscription |-> tx,
            inputTranscription |-> "", audio |-> TRUE] : tx \in CustomerFragments }
    \cup { [turnComplete |-> FALSE, interrupted |-> FALSE, outputTranscription |-> "",
            inputTranscription |-> tx, audio |-> FALSE] : tx \in AgentFragments }
    \cup { [turnComplete |-> TRUE, interrupted |-> FALSE, outputTranscription |-> tx,
            inputTranscription |-> "", audio |-> FALSE] : tx \in CustomerFragments }

\* run(): connect() and the start of the tasks; handle_voice_agent starts with
\* send_activity_start()
RunStarts ==
    /\ run_position = "constructed"
    /\ run_position' = "running"
    /\ is_listening' = TRUE
    /\ UNCHANGED <<transcripts, stages, candidate, pieces, accepted, reports, machine,
                   buffers, speech_heard, gemini_done, va_disconnected, beside_bridge>>

\* handle_gemini: one message with serverContent
ServerContent(data) ==
    /\ run_position = "running"
    /\ Len(transcripts) < MaxBridgeUtterances
    /\ Len(customer_buffer) + Len(data.outputTranscription) <= MaxBufferLength
    /\ Len(agent_buffer) + Len(data.inputTranscription) <= MaxBufferLength
    /\ LET no_flush == [appended |-> <<>>, buffer |-> customer_buffer]
           at_turn == IF data.turnComplete
                      THEN flush_buffer("customer", customer_buffer) ELSE no_flush
           at_interrupt == IF data.interrupted
                           THEN flush_buffer("customer", at_turn.buffer)
                           ELSE [appended |-> <<>>, buffer |-> at_turn.buffer]
       IN  /\ transcripts' = transcripts \o at_turn.appended \o at_interrupt.appended
           /\ customer_buffer' = at_interrupt.buffer \o data.outputTranscription
    /\ stages' = IF transcripts' = transcripts THEN stages
                 ELSE Append(stages, get_conversation_stage(transcripts'))
    /\ agent_buffer' = agent_buffer \o data.inputTranscription
    /\ gemini_done' = IF data.audio THEN FALSE
                      ELSE IF data.turnComplete \/ data.interrupted THEN TRUE
                      ELSE gemini_done
    /\ UNCHANGED <<candidate, pieces, accepted, reports, machine,
                   is_listening, speech_heard, va_disconnected, run_position, beside_bridge>>

\* handle_voice_agent: a chunk of audio with speech in it
VoiceAgentSpeech ==
    /\ run_position = "running"
    /\ ~va_disconnected
    /\ speech_heard' = TRUE
    /\ UNCHANGED <<transcripts, stages, candidate, pieces, accepted, reports, machine,
                   buffers, is_listening, gemini_done, va_disconnected, run_position,
                   beside_bridge>>

\* handle_voice_agent: ConnectionClosed
VoiceAgentDisconnects ==
    /\ run_position = "running"
    /\ ~va_disconnected
    /\ va_disconnected' = TRUE
    /\ UNCHANGED <<transcripts, stages, candidate, pieces, accepted, reports, machine,
                   buffers, is_listening, speech_heard, gemini_done, run_position,
                   beside_bridge>>

\* silence_monitor: audio and transcription silent for silence_threshold
SilenceDetected ==
    /\ run_position = "running"
    /\ ~va_disconnected
    /\ is_listening /\ speech_heard
    /\ Len(transcripts) < MaxBridgeUtterances
    /\ transcripts' = transcripts \o flush_buffer("agent", agent_buffer).appended
    /\ stages' = IF transcripts' = transcripts THEN stages
                 ELSE Append(stages, get_conversation_stage(transcripts'))
    /\ agent_buffer' = flush_buffer("agent", agent_buffer).buffer
    /\ is_listening' = FALSE
    /\ speech_heard' = FALSE
    /\ UNCHANGED <<candidate, pieces, accepted, reports, machine,
                   customer_buffer, gemini_done, va_disconnected, run_position,
                   beside_bridge>>

\* silence_monitor: the fallback, 5 s of listening without speech detected
FallbackActivityEnd ==
    /\ run_position = "running"
    /\ ~va_disconnected
    /\ is_listening /\ ~speech_heard
    /\ is_listening' = FALSE
    /\ UNCHANGED <<transcripts, stages, candidate, pieces, accepted, reports, machine,
                   buffers, speech_heard, gemini_done, va_disconnected, run_position,
                   beside_bridge>>

\* restart_listening_after_gemini: the echo has cleared
RestartListening ==
    /\ run_position = "running"
    /\ ~va_disconnected
    /\ gemini_done /\ ~is_listening
    /\ speech_heard' = FALSE
    /\ is_listening' = TRUE
    /\ gemini_done' = FALSE
    /\ UNCHANGED <<transcripts, stages, candidate, pieces, accepted, reports, machine,
                   buffers, va_disconnected, run_position, beside_bridge>>

\* run(): the gather is over, or wait_for timed out after 300 s
RunReturns ==
    /\ run_position = "running"
    /\ run_position' = "returned"
    /\ UNCHANGED <<transcripts, stages, candidate, pieces, accepted, reports, machine,
                   buffers, is_listening, speech_heard, gemini_done, va_disconnected,
                   beside_bridge>>

\* run_scenario: runner.get_results() once runner.run() has returned
ResultsAfterRun ==
    /\ run_position = "returned"
    /\ GetResults

NextBridge ==
    \/ RunStarts
    \/ \E data \in ServerContents : ServerContent(data)
    \/ VoiceAgentSpeech
    \/ VoiceAgentDisconnects
    \/ SilenceDetected
    \/ FallbackActivityEnd
    \/ RestartListening
    \/ RunReturns
    \/ ResultsAfterRun

SpecBridge == Init /\ [][NextBridge]_vars

(***************************************************************************)
(* SpecPolling: the polling loop of HotelBookingOrchestrator.run, the      *)
(* utterances flushed into the transcript meanwhile, and the keep-alive    *)
(* prompts of the customer.  Times are differences in seconds, kept up to  *)
(* the value the loop compares them with.                                  *)
(***************************************************************************)
MaxPolledUtterances == 3
\* the argument timeout of run()
RunTimeout == 111

AgentFlushes == { "hello", "successfully made your booking" }
CustomerFlushes == { "goodbye" }

\* run(): the provider and the room are connected, the loop is entered
LoopStarts ==
    /\ ~polling
    /\ polled.did = "nothing"
    /\ polling' = TRUE
    /\ provider_open' = TRUE
    /\ time_since_activity' = 0
    /\ UNCHANGED <<transcripts, stages, candidate, pieces, accepted, reports, machine,
                   keepalive_attempts, time_since_keepalive, elapsed, prompts, polled,
                   judged, beside_orchestrator>>

\* _flush_agent_buffer with text in the buffer; final_text is what it settles on
AgentFlushed(final_text) ==
    /\ polling /\ provider_open
    /\ Len(transcripts) < MaxPolledUtterances
    /\ transcripts' = Append(transcripts, [role |-> "agent", content |-> final_text])
    /\ stages' = Append(stages, get_conversation_stage(transcripts'))
    /\ time_since_activity' = 0
    /\ keepalive_attempts' = 0
    /\ prompts' = 0
    /\ judged' = Judgements(transcripts')
    /\ UNCHANGED <<candidate, pieces, accepted, reports, machine,
                   time_since_keepalive, elapsed, provider_open, polling, polled,
                   beside_orchestrator>>

\* _flush_customer_buffer with text in the buffer
CustomerFlushed(text) ==
    /\ polling /\ provider_open
    /\ Len(transcripts) < MaxPolledUtterances
    /\ transcripts' = Append(transcripts, [role |-> "customer", content |-> text])
    /\ stages' = Append(stages, get_conversation_stage(transcripts'))
    /\ time_since_activity' = 0
    /\ judged' = Judgements(transcripts')
    /\ UNCHANGED <<candidate, pieces, accepted, reports, machine,
                   keepalive_attempts, time_since_keepalive, elapsed, provider_open,
                   polling, prompts, polled, beside_orchestrator>>

\* the websocket of the provider closes: every later send raises
ProviderCloses ==
    /\ polling /\ provider_open
    /\ provider_open' = FALSE
    /\ UNCHANGED <<transcripts, stages, candidate, pieces, accepted, reports, machine,
                   keepalive_attempts, timers, polling, prompts, polled, judged,
                   beside_orchestrator>>

\* one more round, and what it did
Round(did) == [did |-> did, odd |-> ~polled.odd]

\* the loop is left
LoopExits(reason, since_activity, since_keepalive) ==
    /\ polling' = FALSE
    /\ polled' = Round(reason)
    /\ time_since_activity' = since_activity
    /\ time_since_keepalive' = since_keepalive
    /\ UNCHANGED <<keepalive_attempts, prompts>>

\* _send_keepalive_prompt, called with the conversation not ending
SendKeepalivePrompt(since_activity, since_keepalive) ==
    IF provider_open
    THEN /\ keepalive_attempts' = keepalive_attempts + 1
         /\ prompts' = prompts + 1
         /\ time_since_keepalive' = 0
         /\ time_since_activity' = 0
         /\ polled' = Round("prompt sent")
         /\ UNCHANGED polling
    ELSE /\ polled' = Round("prompt failed")
         /\ time_since_activity' = since_activity
         /\ time_since_keepalive' = since_keepalive
         /\ UNCHANGED <<keepalive_attempts, prompts, polling>>

\* one round of the while True of run()
PollRound(since_activity, since_keepalive) ==
    IF judged.booking_confirmed
    THEN LoopExits("booking confirmed", since_activity, since_keepalive)
    ELSE IF judged.call_ended /\ Len(transcripts) > 15
    THEN LoopExits("call ended", since_activity, since_keepalive)
    ELSE IF keepalive_due(since_activity, keepalive_attempts, since_keepalive,
                          judged.conversation_ending)
    THEN SendKeepalivePrompt(since_activity, since_keepalive)
    ELSE IF since_activity >= INACTIVITY_TIMEOUT
    THEN LoopExits("inactivity timeout", since_activity, since_keepalive)
    ELSE IF elapsed' >= RunTimeout
    THEN LoopExits("overall timeout", since_activity, since_keepalive)
    ELSE /\ polled' = Round("waiting")
         /\ time_since_activity' = since_activity
         /\ time_since_keepalive' = since_keepalive
         /\ UNCHANGED <<keepalive_attempts, prompts, polling>>

Poll ==
    /\ polling
    /\ elapsed' = later(elapsed, RunTimeout)
    /\ PollRound(later(time_since_activity, INACTIVITY_TIMEOUT),
                 later(time_since_keepalive, AGENT_RESPONSE_TIMEOUT))
    /\ UNCHANGED <<transcripts, stages, candidate, pieces, accepted, reports, machine,
                   provider_open, judged, beside_orchestrator>>

NextPolling ==
    \/ LoopStarts
    \/ \E final_text \in AgentFlushes : AgentFlushed(final_text)
    \/ \E text \in CustomerFlushes : CustomerFlushed(text)
    \/ ProviderCloses
    \/ Poll

SpecPolling == Init /\ [][NextPolling]_vars

\* the event loop runs the polling coroutine whenever its sleep is over
SpecPollingFair == SpecPolling /\ WF_vars(Poll)

(***************************************************************************)
(* What the properties below look at                                       *)
(***************************************************************************)
AgentText == str_lower(RoleText(transcripts, "agent"))
BookingNumber == extract_booking_number(transcripts, FALSE)
RawBookingNumber == extract_raw_booking_number(transcripts)
Stage == Last(stages)

ExplicitPhrasePresent == any_in(EXPLICIT_CONFIRMATIONS, AgentText)
NumberMentionPresent == re_search(number_mention_pattern, AgentText, FALSE).found

NoUtteranceOf(role) == \A i \in DOMAIN transcripts : transcripts[i].role # role

\* some agent utterance contains a failure-indicator phrase
AgentFailureUttered ==
    \E i \in DOMAIN transcripts :
        /\ transcripts[i].role = "agent"
        /\ any_in(failure_patterns, str_lower(transcripts[i].content))

\* the predicate of a stage, as get_conversation_stage tests it
StagePredicate(stage, ts) ==
    LET agent_text == str_lower(RoleText(ts, "agent"))
        customer_text == str_lower(RoleText(ts, "customer"))
    IN  CASE stage = "BOOKING_CONFIRMED" -> is_booking_confirmed(ts)
          [] stage = "CONFIRMATION_ASKED" -> ConfirmationAsked(agent_text)
          [] stage = "RECAP_DONE" -> RecapDone(agent_text)
          [] stage = "EMAIL_COLLECTED" -> EmailCollected(agent_text, customer_text)
          [] stage = "OCCASION_ASKED" -> OccasionAsked(agent_text)
          [] stage = "EXPERIENCE_SHAPED" -> ExperienceShaped(agent_text)
          [] stage = "RATE_QUOTED" -> RateQuoted(agent_text)
          [] stage = "ROOM_POSITIONED" -> RoomPositioned(agent_text)
          [] stage = "EXPERIENCE_INTENT" -> ExperienceIntent(agent_text)
          [] stage = "OCCUPANCY_CHECKED" -> OccupancyChecked(agent_text, customer_text)
          [] stage = "DATES_PROVIDED" -> DatesProvided(customer_text)
          [] stage = "RESORT_SELECTED" -> ResortSelected(customer_text)
          [] stage = "PHONE_COLLECTED" -> PhoneCollected(customer_text)
          [] stage = "NAME_COLLECTED" -> NameCollected(ts, agent_text)
          [] OTHER -> FALSE

\* indices (1 = GREETING .. 15 = BOOKING_CONFIRMED) of the stages whose predicate holds
HoldingStages ==
    {k \in 2..Len(CONVERSATION_STEPS) : StagePredicate(CONVERSATION_STEPS[k], transcripts)}

(***************************************************************************)
(* Properties of a call (Spec)                                             *)
(***************************************************************************)
\* C1 (as stated): whenever is_booking_confirmed(transcript) is true,
\* extract_booking_number(transcript, allow_invalid=True) returns a non-null
\* value.
C1_ConfirmedHasRawNumber ==
    is_booking_confirmed(transcripts) => RawBookingNumber.some

\* C1 (amended): whenever is_booking_confirmed(transcript) is true, either
\* extract_booking_number(transcript, allow_invalid=True) returns a non-null
\* value, or the agent text contains an explicit confirmation phrase, or it
\* matches the confirmed/booked ... number-mention pattern.
C1_ConfirmedHasNumberOrExplicit ==
    is_booking_confirmed(transcripts) =>
        \/ RawBookingNumber.some
        \/ ExplicitPhrasePresent
        \/ NumberMentionPresent

\* a call confirmed by a confirmation phrase and a number alone
C1_Witness ==
    /\ is_booking_confirmed(transcripts)
    /\ ~ExplicitPhrasePresent
    /\ ~NumberMentionPresent
    /\ RawBookingNumber.some

\* C2 (as stated): get_conversation_stage returns BOOKING_CONFIRMED only if
\* a booking number, validated or raw, can be extracted, or an explicit
\* confirmation phrase is present.
C2_ConfirmedStageHasEvidence ==
    Stage = "BOOKING_CONFIRMED" =>
        \/ BookingNumber.some
        \/ RawBookingNumber.some
        \/ ExplicitPhrasePresent

\* C2 (amended): get_conversation_stage returns BOOKING_CONFIRMED only if a
\* booking number, validated or raw, can be extracted, or an explicit
\* confirmation phrase is present, or the agent text matches the
\* confirmed/booked ... number-mention pattern.
C2_ConfirmedStageHasEvidenceOrMention ==
    Stage = "BOOKING_CONFIRMED" =>
        \/ BookingNumber.some
        \/ RawBookingNumber.some
        \/ ExplicitPhrasePresent
        \/ NumberMentionPresent

\* a call classified BOOKING_CONFIRMED after an utterance, with a validated number
C2_Witness ==
    /\ Len(transcripts) >= 1
    /\ Stage = "BOOKING_CONFIRMED"
    /\ BookingNumber.some

\* C3: a transcript that contains a failure-indicator phrase in an agent
\* utterance is never booking-confirmed, whatever confirmation phrases or
\* numbers it also contains.
C3_FailureOverridesConfirmation ==
    AgentFailureUttered => ~is_booking_confirmed(transcripts)

\* a failure phrase next to an explicit confirmation and a valid number
C3_Witness ==
    /\ AgentFailureUttered
    /\ ExplicitPhrasePresent
    /\ BookingNumber.some
    /\ ~is_booking_confirmed(transcripts)

\* C4: for a transcript classified BOOKING_CONFIRMED, the stage indices of
\* its growing prefixes never decrease.
C4_PrefixStagesNeverDecrease ==
    Stage = "BOOKING_CONFIRMED" =>
        \A i \in DOMAIN stages : \A j \in DOMAIN stages :
            i < j => StageIndex(stages[i]) <= StageIndex(stages[j])

\* C10: in normal mode extract_booking_number returns only values that pass
\* is_valid_booking_number; a candidate that fails validation is returned
\* only in allow-invalid mode.
C10_NormalModeReturnsValidOnly ==
    BookingNumber.some => is_valid_booking_number(BookingNumber.val)

\* a candidate that fails validation: withheld in normal mode, returned raw
C10_Witness ==
    /\ ~BookingNumber.some
    /\ RawBookingNumber.some
    /\ ~is_valid_booking_number(RawBookingNumber.val)

(***************************************************************************)
(* Properties of the stage classification (SpecStages)                     *)
(***************************************************************************)
\* C5: get_conversation_stage returns exactly one of the 15 stage labels,
\* and GREETING when no stage predicate holds.
C5_OneOfFifteenLabels ==
    /\ Len(CONVERSATION_STEPS) = 15
    /\ \A i \in DOMAIN stages : \E k \in DOMAIN CONVERSATION_STEPS : stages[i] = CONVERSATION_STEPS[k]
    /\ HoldingStages = {} => Stage = "GREETING"

\* utterances of both roles and still no stage predicate holds
C5_Witness ==
    /\ ~NoUtteranceOf("agent")
    /\ ~NoUtteranceOf("customer")
    /\ Len(transcripts) > Len(Opening)
    /\ HoldingStages = {}
    /\ Stage = "GREETING"

\* C6: the predicates are evaluated in descending order of stage index, so
\* the result is the highest-index stage whose predicate holds, and adding
\* the cue of a less advanced stage never lowers the classification.
C6_HighestHoldingStage ==
    /\ [](\A k \in HoldingStages : k <= StageIndex(Stage) + 1)
    /\ [](HoldingStages # {} => StageIndex(Stage) + 1 \in HoldingStages)
    /\ [][StageIndex(Last(stages')) >= StageIndex(Stage)]_vars

\* the last utterance made the predicate of a less advanced stage hold
\* and the classification stayed at the more advanced stage
C6_Witness ==
    /\ Len(transcripts) >= 2
    /\ Stage \notin {"GREETING", "BOOKING_CONFIRMED"}
    /\ stages[Len(stages) - 1] = Stage
    /\ \E k \in HoldingStages :
          /\ k < StageIndex(Stage) + 1
          /\ ~StagePredicate(CONVERSATION_STEPS[k],
                             SubSeq(transcripts, 1, Len(transcripts) - 1))

\* C7 (as stated): with zero agent utterances or zero customer utterances
\* get_conversation_stage returns GREETING.
C7_OneSidedIsGreeting ==
    (NoUtteranceOf("agent") \/ NoUtteranceOf("customer")) => Stage = "GREETING"

\* C7 (amended): with zero agent utterances get_conversation_stage returns
\* GREETING or a stage cued by the customer alone (PHONE_COLLECTED,
\* RESORT_SELECTED, DATES_PROVIDED); with zero customer utterances it never
\* returns a stage that needs a customer cue (NAME_COLLECTED,
\* PHONE_COLLECTED, RESORT_SELECTED, DATES_PROVIDED, OCCUPANCY_CHECKED,
\* EMAIL_COLLECTED); with no utterance at all it returns GREETING.
C7_OneSidedStages ==
    /\ NoUtteranceOf("agent") =>
          Stage \in {"GREETING", "PHONE_COLLECTED", "RESORT_SELECTED", "DATES_PROVIDED"}
    /\ NoUtteranceOf("customer") =>
          Stage \notin {"NAME_COLLECTED", "PHONE_COLLECTED", "RESORT_SELECTED",
                        "DATES_PROVIDED", "OCCUPANCY_CHECKED", "EMAIL_COLLECTED"}

\* the agent asked for the email and no customer has spoken
C7_Witness ==
    /\ NoUtteranceOf("customer")
    /\ str_contains(AgentText, "email")
    /\ Stage = "GREETING"

(***************************************************************************)
(* Properties of the validator (SpecValidator)                             *)
(***************************************************************************)
CandidateClean == str_upper(str_strip(candidate))
CandidateDigits == Cardinality({i \in 1..Len(CandidateClean) : CharAt(CandidateClean, i) \in DigitChars})
CandidateAllIn(set) ==
    CandidateClean # "" /\ \A i \in 1..Len(CandidateClean) : CharAt(CandidateClean, i) \in set

\* C8: is_valid_booking_number applies these rules in order: reject if the
\* lower-cased candidate is a false-positive word; reject if (stripped) it is
\* shorter than 3; accept an all-alphabetic or all-digit candidate iff its
\* length is in [3,8]; otherwise accept iff (upper-cased) it matches
\* [A-Z0-9-]+ with at least one digit and fewer than 10 digits.  "12",
\* "coorg" and "9876543210" are rejected and "123" is accepted.
C8_ValidationRules ==
    /\ accepted =
          IF str_lower(candidate) \in FALSE_POSITIVE_WORDS THEN FALSE
          ELSE IF Len(CandidateClean) < 3 THEN FALSE
          ELSE IF CandidateAllIn(LetterChars) \/ CandidateAllIn(DigitChars)
               THEN Len(CandidateClean) \in 3..8
          ELSE /\ CandidateAllIn(UpperChars \cup DigitChars \cup {"-"})
               /\ CandidateDigits >= 1
               /\ CandidateDigits < 10
    /\ candidate \in {"12", "coorg", "9876543210"} => ~accepted
    /\ candidate = "123" => accepted

\* a mixed code accepted on its digits, put together from pieces
C8_Witness ==
    /\ pieces >= 2
    /\ accepted
    /\ CandidateDigits \in 1..9
    /\ ~CandidateAllIn(DigitChars)

\* C9 (as stated): every string accepted by is_valid_booking_number has
\* between 3 and 8 characters.
C9_AcceptedLength3To8 ==
    accepted => Len(candidate) \in 3..8

\* C9 (amended): every string accepted by is_valid_booking_number has, once
\* stripped, at least 3 characters; at most 8 if it is all-alphabetic or
\* all-digit; a mixed code of letters, digits and dashes may be longer and
\* has between 1 and 9 digits.
C9_AcceptedLengths ==
    accepted =>
        /\ Len(CandidateClean) >= 3
        /\ (CandidateAllIn(LetterChars) \/ CandidateAllIn(DigitChars)) => Len(CandidateClean) <= 8
        /\ CandidateDigits <= 9
        /\ (CandidateAllIn(LetterChars) \/ CandidateDigits >= 1)

\* an accepted code longer than 8 characters
C9_Witness ==
    /\ accepted
    /\ Len(CandidateClean) > 8

(***************************************************************************)
(* Spelled-out codes                                                       *)
(***************************************************************************)
RawAgentText == RoleText(transcripts, "agent")

IsCodeChar(c) == c \in LetterChars \cup DigitChars
IsSeparator(c) == c \in SpaceChars \cup {"."}

\* the positions of the tokens of text that are a single letter or digit
SingleTokens(text) ==
    {k \in 1..Len(text) :
        /\ IsCodeChar(CharAt(text, k))
        /\ k = 1 \/ ~IsCodeChar(CharAt(text, k - 1))
        /\ k = Len(text) \/ ~IsCodeChar(CharAt(text, k + 1))}

\* text[p..q] is single tokens separated by spaces or periods only
IsSpelledRun(text, p, q) ==
    /\ p \in SingleTokens(text) /\ q \in SingleTokens(text) /\ p <= q
    /\ \A k \in p..q : k \in SingleTokens(text) \/ IsSeparator(CharAt(text, k))

\* the spelled-out codes of text: its longest runs of single tokens, separators
\* stripped, of 3 to 8 characters
SpelledCodes(text) ==
    LET singles == SingleTokens(text)
        runs == {r \in singles \X singles :
                    /\ IsSpelledRun(text, r[1], r[2])
                    /\ \A p \in singles : p < r[1] => ~IsSpelledRun(text, p, r[2])
                    /\ \A q \in singles : q > r[2] => ~IsSpelledRun(text, r[1], q)}
        code(r) == str_upper(str_concat(
                      SelectSeq([k \in 1..(r[2] - r[1] + 1) |-> CharAt(text, r[1] + k - 1)],
                                IsCodeChar)))
    IN  {code(r) : r \in {x \in runs : Cardinality(singles \cap (x[1]..x[2])) \in 3..8}}

ValidSpelledCodes == {code \in SpelledCodes(RawAgentText) : is_valid_booking_number(code)}

\* C11: when the agent text contains a spelled-out code (single letters or
\* digits separated by spaces or periods, 3 to 8 characters without the
\* separators) that passes validation, extract_booking_number returns such a
\* code, whatever the labelled patterns would find; the transcript
\* [agent: "T. C. W. F. O. is your code"] yields "TCWFO".
C11_SpelledCodeReturned ==
    /\ ValidSpelledCodes # {} =>
          BookingNumber.some /\ BookingNumber.val \in ValidSpelledCodes
    /\ transcripts = <<[role |-> "agent", content |-> "T. C. W. F. O. is your code"]>> =>
          BookingNumber = Some("TCWFO")

\* C12: without any confirmation phrase and without any explicit
\* confirmation phrase in the agent text the booking is not confirmed, even
\* when extract_booking_number returns a validated number.
C12_NumberAloneNeverConfirms ==
    ~any_in(CONFIRMATION_PHRASES, AgentText) /\ ~ExplicitPhrasePresent
        => ~is_booking_confirmed(transcripts)

\* C12, amended: ... and without a match of the "confirmed/booked ... number"
\* pattern, which confirms by itself.
C12_NumberAloneConfirmsOnlyByMention ==
    ~any_in(CONFIRMATION_PHRASES, AgentText) /\ ~ExplicitPhrasePresent
        /\ ~NumberMentionPresent
        => ~is_booking_confirmed(transcripts)

\* a validated number, no phrase of either list, no mention match: unconfirmed
C12_Witness ==
    /\ BookingNumber.some
    /\ ~any_in(CONFIRMATION_PHRASES, AgentText)
    /\ ~ExplicitPhrasePresent
    /\ ~NumberMentionPresent
    /\ ~is_booking_confirmed(transcripts)

(***************************************************************************)
(* Call end                                                                *)
(***************************************************************************)
\* the last up-to-5 utterances of the transcript
LastFive ==
    SubSeq(transcripts, IF Len(transcripts) > 5 THEN Len(transcripts) - 4 ELSE 1,
           Len(transcripts))

CustomerFarewell == any_in(customer_endings, LowerText(RoleContents(LastFive, "customer")))
AgentClosed == any_in(agent_endings, LowerText(RoleContents(LastFive, "agent")))

\* C13: is_call_ended is false for fewer than 3 utterances; otherwise it is
\* true exactly when, in the last up-to-5 utterances, the customer text
\* contains a farewell phrase, or the customer said a farewell and the agent
\* acknowledged with a closing phrase; the utterances before the last five
\* never change the result.
C13_CallEndedByRecentFarewell ==
    /\ Len(transcripts) < 3 => ~ended
    /\ Len(transcripts) >= 3 =>
          (ended <=> CustomerFarewell \/ (CustomerFarewell /\ AgentClosed))
    /\ Len(transcripts) > 5 => ended = is_call_ended(LastFive)

\* a farewell of the customer that is older than the last five utterances
C13_Witness ==
    /\ Len(transcripts) > 5
    /\ any_in(customer_endings, str_lower(transcripts[1].content))
    /\ transcripts[1].role = "customer"
    /\ ~CustomerFarewell
    /\ ~ended

(***************************************************************************)
(* Failure diagnosis                                                       *)
(***************************************************************************)
AgentMessages == RoleContents(transcripts, "agent")
CustomerText == LowerText(RoleContents(transcripts, "customer"))

\* the conditions of the diagnosis, as the properties state them
InvalidCandidateSpoken == Truthy(RawBookingNumber) /\ ~Truthy(BookingNumber)
TechnicalIssueSpoken == TechnicalHits(AgentText) # {}
CustomerSpokeLast == transcripts # <<>> /\ Last(transcripts).role = "customer"
CustomerDeclined == any_in(decline_patterns, CustomerText)
LastThreeIdentical ==
    /\ Len(AgentMessages) >= 3
    /\ \A k \in (Len(AgentMessages) - 2)..Len(AgentMessages) :
          str_prefix(AgentMessages[k].content, 50)
            = str_prefix(Last(AgentMessages).content, 50)

\* the explanation of the first condition that holds, in the fixed order
FirstExplanation(customer_spoke_last, repeating) ==
    IF InvalidCandidateSpoken
    THEN (IF str_lower(RawBookingNumber.val) = "number"
          THEN "Agent said 'number' instead of providing actual booking number"
          ELSE "Agent provided invalid booking number '" \o RawBookingNumber.val \o "'")
    ELSE IF TechnicalIssueSpoken
    THEN technical_patterns[First(TechnicalHits(AgentText))][2]
    ELSE IF customer_spoke_last
    THEN "Agent stopped responding after customer's last message"
    ELSE IF CustomerDeclined THEN "Customer declined to proceed with booking"
    ELSE IF Len(transcripts) < 5
    THEN "Conversation ended after only " \o ToString(Len(transcripts))
            \o " messages - agent or customer disconnected"
    ELSE IF repeating THEN "Agent stuck repeating the same message"
    ELSE stage_context(Stage, Len(transcripts))

\* C14: for every transcript get_failed_at_description returns the
\* explanation of the first condition that holds, in the order: unvalidated
\* booking-number candidate, technical phrase in the agent text, customer
\* spoke last, decline phrase in the customer text, fewer than 5 messages,
\* last three agent messages identical in their first 50 characters, the
\* description of the stage.
C14_FirstConditionWins ==
    description = FirstExplanation(CustomerSpokeLast, LastThreeIdentical)

\* C14, amended: ... for every transcript of 2 or more utterances (a shorter
\* one is reported as ended prematurely); the customer spoke last after some
\* agent utterance; the last three agent messages are compared in lower case.
C14_FirstConditionWinsFromTwo ==
    IF Len(transcripts) < 2
    THEN description = "Conversation ended prematurely - no meaningful interaction"
    ELSE description = FirstExplanation(CustomerSpokeLast /\ AgentMessages # <<>>,
                                        LastThreeAlike(AgentMessages, 50))

\* a technical-issue phrase next to a valid number in a call of fewer than 5
\* messages: the technical explanation wins over the short-call one
C14_Witness ==
    /\ Len(transcripts) >= 2 /\ Len(transcripts) < 5
    /\ BookingNumber = Some("4521")
    /\ str_contains(AgentText, "technical issue")
    /\ description = "Technical issue with booking system"

\* the agent said "number" where the code should be, and no other candidate
SaidNumberForCode ==
    /\ \E i \in DOMAIN transcripts :
          /\ transcripts[i].role = "agent"
          /\ transcripts[i].content = "your booking number is number"
    /\ \A i \in DOMAIN transcripts :
          transcripts[i].role = "agent" =>
              transcripts[i].content \notin {"your booking number is coorg",
                                             "your booking number is 4521"}

\* C15: when the agent says the literal word "number" where the code should
\* be after a booking-number label, extract_booking_number returns None in
\* normal mode and "number" in allow-invalid mode, and the failure
\* description reports that the agent said 'number' instead of a number.
C15_LiteralNumberReported ==
    SaidNumberForCode =>
        /\ BookingNumber = None
        /\ RawBookingNumber.some /\ str_lower(RawBookingNumber.val) = "number"
        /\ Len(transcripts) >= 2 =>
              description = "Agent said 'number' instead of providing actual booking number"

(***************************************************************************)
(* Sanity check                                                            *)
(***************************************************************************)
\* some speaker has n consecutive utterances
InARow(n) ==
    \E i \in 1..(Len(transcripts) - n + 1) :
        \A k \in i..(i + n - 1) : transcripts[k].role = transcripts[i].role

TooShort == Len(transcripts) < 4

SameSpeakerWarned ==
    \E w \in DOMAIN sanity.warnings : str_prefix(sanity.warnings[w], 8) = "Speaker "

\* a warning of one of the advisory checks: content, balance, repetition, length
AdvisoryWarned ==
    \E w \in DOMAIN sanity.warnings :
        \/ str_prefix(sanity.warnings[w], 13) = "Empty message"
        \/ str_prefix(sanity.warnings[w], 12) = "Suspiciously"
        \/ str_prefix(sanity.warnings[w], 3) = "No "
        \/ str_prefix(sanity.warnings[w], 11) = "Agent stuck"
        \/ str_prefix(sanity.warnings[w], 9) = "Unusually"

\* C16: check_conversation_sanity returns is_sane = false only when the
\* transcript is empty or too short; every other check, the same-speaker
\* check included, only appends warnings and never changes the boolean.
C16_OnlyEmptyOrShortUnsane ==
    sanity.is_sane <=> ~(transcripts = <<>> \/ TooShort)

\* C16, amended: is_sane is false only when the transcript is empty, too
\* short (fewer than 4 messages) or draws a same-speaker warning; the checks
\* of content, balance, repetition and length never change the boolean.
C16_OnlyEmptyShortOrTurnsUnsane ==
    sanity.is_sane <=> ~(transcripts = <<>> \/ TooShort \/ SameSpeakerWarned)

\* advisory warnings on a transcript that is sane
C16_Witness ==
    /\ sanity.is_sane
    /\ AdvisoryWarned
    /\ \E i \in DOMAIN transcripts : transcripts[i].content = ""

\* C17: check_conversation_sanity emits a same-speaker warning for every
\* transcript in which one speaker has 3 or more consecutive utterances, and
\* none when no speaker has 3 consecutive utterances.
C17_ThreeInARowWarned ==
    SameSpeakerWarned <=> InARow(3)

(***************************************************************************)
(* Stage progression                                                       *)
(***************************************************************************)
\* the stages at the sampled prefixes (quartiles and the full transcript),
\* read from the classifications of the call so far
Sampled ==
    [k \in 1..4 |-> stages[sample_points(Len(transcripts))[k] + 2]]

SampledIndex(k) == StageIndex(Sampled[k])

\* a sampled stage other than BOOKING_CONFIRMED lower than an earlier sample
Regressed ==
    \E k \in 2..4 : /\ Sampled[k] # "BOOKING_CONFIRMED"
                    /\ \E j \in 1..(k - 1) : SampledIndex(k) < SampledIndex(j)

\* a sample past its predecessor with more than n stages between them
Jumped(n) == \E k \in 2..4 : SampledIndex(k) - SampledIndex(k - 1) - 1 > n

\* the required stages seen neither at a sample nor for the full transcript
MissingRequired ==
    SelectSeq(required_stages, LAMBDA required :
        /\ \A k \in 1..4 : Sampled[k] # required
        /\ Stage # required)

RequiredCheckPasses == Sampled[4] = "BOOKING_CONFIRMED" => MissingRequired = <<>>

\* C18: validate_stage_progression reports invalid whenever a sampled stage
\* other than BOOKING_CONFIRMED has a lower index than an earlier sample, or
\* a sample jumps past its predecessor skipping more than 4 stages; when
\* neither occurs and the required-stage check passes it reports valid.
C18_RegressionOrJumpInvalid ==
    transcripts # <<>> =>
        /\ Regressed \/ Jumped(4) => ~progression.is_valid
        /\ ~Regressed /\ ~Jumped(4) /\ RequiredCheckPasses => progression.is_valid

\* C18, amended: ... skipping more than 3 stages, that is, with an index more
\* than 4 above its predecessor's.
C18_RegressionOrJumpOver3Invalid ==
    transcripts # <<>> =>
        /\ Regressed \/ Jumped(3) => ~progression.is_valid
        /\ ~Regressed /\ ~Jumped(3) /\ RequiredCheckPasses => progression.is_valid

\* a jump over exactly 4 stages, reported as unrealistic
C18_Witness ==
    /\ Len(transcripts) = 2
    /\ Jumped(3) /\ ~Jumped(4) /\ ~Regressed
    /\ ~progression.is_valid

\* C19: when the sampled stages end at BOOKING_CONFIRMED and a required
\* stage (NAME_COLLECTED, PHONE_COLLECTED, RESORT_SELECTED, DATES_PROVIDED)
\* was seen neither at a sample nor as the full-transcript classification,
\* validate_stage_progression returns invalid with an error naming the
\* missing stages (no regression or jump being reported before).
C19_MissingRequiredInvalid ==
    /\ transcripts # <<>>
    /\ Sampled[4] = "BOOKING_CONFIRMED"
    /\ MissingRequired # <<>>
    /\ ~Regressed /\ ~Jumped(3)
    => progression = Invalid("Booking confirmed but missing required stages: "
                                \o str_join_sep(", ", MissingRequired))

(***************************************************************************)
(* The state machine                                                       *)
(***************************************************************************)
\* C20: BOOKING_CONFIRMED is terminal: once current_state is
\* BOOKING_CONFIRMED no transition() call changes it, every request for a
\* different state returns False, and in every state a request for the
\* current state returns True.
C20_BookingConfirmedTerminal ==
    [][returned' # <<>> =>
        /\ current_state = "BOOKING_CONFIRMED" =>
              /\ current_state' = "BOOKING_CONFIRMED"
              /\ returned'[1].new_state # "BOOKING_CONFIRMED" => ~returned'[1].result
        /\ returned'[1].new_state = current_state =>
              /\ returned'[1].result
              /\ current_state' = current_state]_vars

\* the booking was confirmed and a later request for another state refused
C20_Witness ==
    /\ current_state = "BOOKING_CONFIRMED"
    /\ Last(state_history) = "BOOKING_CONFIRMED"
    /\ returned # <<>>
    /\ returned[1].new_state # "BOOKING_CONFIRMED"
    /\ ~returned[1].result
    /\ invalid_transitions = <<<<"BOOKING_CONFIRMED", returned[1].new_state>>>>

(***************************************************************************)
(* The queries as a whole                                                  *)
(***************************************************************************)
\* a query was called in this step
QueryStep == \E query \in CoreQueries : answers'[query] # <<>>

NoCue ==
    \A i \in DOMAIN transcripts :
        transcripts[i].content \in {"Welcome to Tamara Resorts", "hello there"}

\* C22: on degenerate input the core falls back to defaults: for the empty
\* transcript and for a transcript without a matching cue, such as
\* [agent: "Welcome to Tamara Resorts"], get_conversation_stage returns
\* GREETING, is_booking_confirmed false, extract_booking_number None and
\* is_call_ended false, and get_failed_at_description and
\* check_conversation_sanity return a defined value.
C22_DegenerateInputDefaults ==
    NoCue =>
        /\ answers["get_conversation_stage"] \in {<<>>, <<"GREETING">>}
        /\ answers["is_booking_confirmed"] \in {<<>>, <<FALSE>>}
        /\ answers["extract_booking_number"] \in {<<>>, <<None>>}
        /\ answers["is_call_ended"] \in {<<>>, <<FALSE>>}
        /\ answers["get_failed_at_description"] # <<>> =>
              IF Len(transcripts) < 2
              THEN answers["get_failed_at_description"][1]
                     = "Conversation ended prematurely - no meaningful interaction"
              ELSE answers["get_failed_at_description"][1] # ""
        /\ answers["check_conversation_sanity"] # <<>> =>
              /\ answers["check_conversation_sanity"][1].is_sane \in BOOLEAN
              /\ transcripts = <<>> =>
                    answers["check_conversation_sanity"][1]
                      = [is_sane |-> FALSE, warnings |-> <<"Conversation is empty - no messages">>]

\* all six queries have answered for [agent: "Welcome to Tamara Resorts"]
C22_Witness ==
    /\ transcripts = <<[role |-> "agent", content |-> "Welcome to Tamara Resorts"]>>
    /\ \A query \in CoreQueries : answers[query] # <<>>

(***************************************************************************)
(* The results of a run                                                    *)
(***************************************************************************)
\* C24: in get_results, for every run that is not confirmed, failed_at is
\* get_failed_at_description of the inferred stage and the run's transcript,
\* and stage_progress is (index of the inferred stage + 1, 15); for a
\* confirmed run failed_at is None.
C24_FailedAtFromStageAndTranscript ==
    results # <<>> =>
        IF results[1].booking_confirmed
        THEN results[1].failed_at = None
        ELSE /\ results[1].failed_at = Some(get_failed_at_description(Stage, transcripts))
             /\ results[1].stage_progress = <<StageIndex(Stage) + 1, 15>>

(***************************************************************************)
(* The criteria of a scenario                                              *)
(***************************************************************************)
\* the judge's answer to the question about a criterion, if it was asked
JudgeOf(criterion) ==
    {llm_calls[k].judge : k \in {j \in DOMAIN llm_calls : llm_calls[j].criterion = criterion}}

\* the judge gave a verdict: the word PASS or FAIL, in any case, spaces around it
JudgeVerdicts(criterion) ==
    {str_upper(str_strip(judge.text)) :
        judge \in {j \in JudgeOf(criterion) :
                      j.kind = "answers" /\ str_upper(str_strip(j.text)) \in {"PASS", "FAIL"}}}

Subjective(criterion) ==
    \E k \in DOMAIN LLM_CRITERIA_KEYWORDS : str_contains(criterion, LLM_CRITERIA_KEYWORDS[k])

\* C23: every criterion of the scenario gets exactly one verdict, PASS, FAIL
\* or N/A, whatever the LLM judge does; the judge's verdict is used only for a
\* subjective criterion and only when it is PASS or FAIL, and otherwise the
\* verdict is the pattern-based one.
C23_OneVerdictPerCriterion ==
    /\ [k \in DOMAIN criteria_results |-> criteria_results[k].criterion] \o pending
         = ScenarioCriteria
    /\ \A k \in DOMAIN criteria_results :
          LET criterion == criteria_results[k].criterion
              result == criteria_results[k].result
          IN  /\ result \in {"PASS", "FAIL", "N/A"}
              /\ ~Subjective(criterion) => JudgeOf(criterion) = {}
              /\ IF Subjective(criterion) /\ JudgeVerdicts(criterion) # {}
                 THEN result \in JudgeVerdicts(criterion)
                 ELSE result = pattern_result(criterion,
                                              str_lower(conversation_text(transcripts)))

\* all criteria evaluated: the judge raised on one subjective criterion, which
\* got its pattern verdict, and gave on another a verdict the patterns do not
C23_Witness ==
    /\ pending = <<>>
    /\ Len(transcripts) = 3
    /\ JudgeOf("agent_patience") = {JudgeRaises}
    /\ criteria_results[1].result = "PASS"
    /\ JudgeOf("budget_sensitivity") = {JudgeAnswers(" pass\n")}
    /\ criteria_results[3].result = "PASS"
    /\ JudgeOf("retention_attempt") = {JudgeAnswers("Maybe")}
    /\ criteria_results[4].result = "N/A"

(***************************************************************************)
(* The buffers of the bridge when the results are computed                 *)
(***************************************************************************)
\* C25: when the results of a call are computed, every fragment received has
\* been flushed into the transcript: neither the agent buffer nor the customer
\* buffer holds text
C25_BuffersFlushedBeforeResults ==
    results # <<>> => str_strip(agent_buffer) = "" /\ str_strip(customer_buffer) = ""

(***************************************************************************)
(* Failure language over the growing transcript                            *)
(***************************************************************************)
\* C26: failure language is sticky over the append-only transcript: once an
\* agent utterance with a failure-indicator phrase has been appended, the
\* transcript and every extension of it keep the phrase, is_booking_confirmed
\* is false for them and their stage is never BOOKING_CONFIRMED
C26_FailureLanguageSticky ==
    \A n \in DOMAIN transcripts :
        /\ transcripts[n].role = "agent"
        /\ any_in(failure_patterns, str_lower(transcripts[n].content))
        => \A m \in n..Len(transcripts) :
              /\ ~is_booking_confirmed(SubSeq(transcripts, 1, m))
              /\ stages[m + 1] # "BOOKING_CONFIRMED"

\* a transcript classified BOOKING_CONFIRMED that dropped to a lower stage with
\* a failure phrase, and stays there when an explicit confirmation follows
C26_Witness ==
    /\ Len(transcripts) = 3
    /\ stages[2] = "BOOKING_CONFIRMED"
    /\ transcripts[2].role = "agent"
    /\ any_in(failure_patterns, str_lower(transcripts[2].content))
    /\ stages[3] # "BOOKING_CONFIRMED"
    /\ any_in(EXPLICIT_CONFIRMATIONS, str_lower(transcripts[3].content))
    /\ StageIndex(Stage) < StageIndex("BOOKING_CONFIRMED")

(***************************************************************************)
(* The paths of the state machine                                          *)
(***************************************************************************)
\* the states every confirmed booking has passed, in the order of the claim
Milestones ==
    <<"PHONE_COLLECTED", "RESORT_SELECTED", "DATES_PROVIDED", "ROOM_POSITIONED",
      "EMAIL_COLLECTED", "CONFIRMATION_ASKED", "BOOKING_CONFIRMED">>

\* the place of a state in state_history, 0 when it was never entered
PlaceInHistory(state) ==
    IF \E i \in DOMAIN state_history : state_history[i] = state
    THEN CHOOSE i \in DOMAIN state_history : state_history[i] = state
    ELSE 0

\* the states some sequence of successful transitions leads to from a set
RECURSIVE ReachableFrom(_)
ReachableFrom(states) ==
    IF UNION {valid_next_states(state) : state \in states} \subseteq states
    THEN states
    ELSE ReachableFrom(states \cup UNION {valid_next_states(state) : state \in states})

\* C27: every sequence of successful transitions from GREETING that reaches
\* BOOKING_CONFIRMED has passed PHONE_COLLECTED, RESORT_SELECTED,
\* DATES_PROVIDED, ROOM_POSITIONED, EMAIL_COLLECTED and CONFIRMATION_ASKED, in
\* that order; and from every state but BOOKING_CONFIRMED, BOOKING_CONFIRMED
\* can still be reached
C27_ConfirmedPathsPassMilestones ==
    /\ current_state = "BOOKING_CONFIRMED" =>
          /\ PlaceInHistory(Milestones[1]) > 1
          /\ \A k \in 2..Len(Milestones) :
                PlaceInHistory(Milestones[k - 1]) < PlaceInHistory(Milestones[k])
    /\ current_state # "BOOKING_CONFIRMED" =>
          "BOOKING_CONFIRMED" \in ReachableFrom({current_state})

\* the shortest way to a confirmed booking: every optional state was skipped
C27_Witness ==
    /\ current_state = "BOOKING_CONFIRMED"
    /\ Len(state_history) = 9
    /\ PlaceInHistory("NAME_COLLECTED") = 0
    /\ PlaceInHistory("EMAIL_COLLECTED") = 7

\* what holds of state_history after any sequence of calls
HistoryInOrder ==
    /\ state_history[1] = "GREETING"
    /\ \A i \in 2..Len(state_history) :
          StageIndex(state_history[i - 1]) < StageIndex(state_history[i])
    /\ Last(state_history) = current_state

\* C28: after any sequence of transition() calls state_history starts with
\* GREETING, is strictly increasing in stage index and ends with current_state;
\* a successful state change raises the index by 1, 2 or 3; a rejected
\* transition leaves current_state and state_history unchanged and appends
\* exactly one pair to invalid_transitions
C28_HistoryIncreasesBySmallSteps ==
    [][/\ HistoryInOrder'
       /\ current_state' # current_state =>
             /\ StageIndex(current_state') - StageIndex(current_state) \in {1, 2, 3}
             /\ state_history' = Append(state_history, current_state')
             /\ invalid_transitions' = invalid_transitions
       /\ returned' # <<>> /\ ~returned'[1].result =>
             /\ current_state' = current_state
             /\ state_history' = state_history
             /\ invalid_transitions' =
                   Append(invalid_transitions, <<current_state, returned'[1].new_state>>)]_vars

\* a history with a step of three stages, and a rejected request after it
C28_Witness ==
    /\ \E i \in 2..Len(state_history) :
          StageIndex(state_history[i]) - StageIndex(state_history[i - 1]) = 3
    /\ Len(invalid_transitions) = 1
    /\ returned # <<>>
    /\ ~returned[1].result
    /\ invalid_transitions[1] = <<current_state, returned[1].new_state>>
    /\ HistoryInOrder

(***************************************************************************)
(* The keep-alive prompts and the end of the polling loop                  *)
(***************************************************************************)
\* the step appends an utterance of the agent to the transcript
AgentUtteranceFlushed ==
    /\ Len(transcripts') = Len(transcripts) + 1
    /\ Last(transcripts').role = "agent"

\* the step sends a keep-alive prompt
PromptSent == prompts' = prompts + 1

\* C29: keepalive_attempts never exceeds MAX_KEEPALIVE_ATTEMPTS (3): at most 3
\* keep-alive prompts are sent between two consecutive agent utterances, the
\* counter is reset to 0 whenever an agent utterance is flushed into the
\* transcript, and no prompt is sent while the conversation is judged to be
\* ending
C29_KeepaliveAttemptsBounded ==
    [][/\ keepalive_attempts' <= MAX_KEEPALIVE_ATTEMPTS
       /\ prompts' <= MAX_KEEPALIVE_ATTEMPTS
       /\ AgentUtteranceFlushed => keepalive_attempts' = 0
       /\ PromptSent => /\ ~is_conversation_ending(transcripts)
                        /\ keepalive_attempts < MAX_KEEPALIVE_ATTEMPTS
                        /\ keepalive_attempts' = keepalive_attempts + 1]_vars

\* the third prompt after an agent utterance that had reset the counter
C29_Witness ==
    /\ keepalive_attempts = MAX_KEEPALIVE_ATTEMPTS
    /\ prompts = MAX_KEEPALIVE_ATTEMPTS
    /\ polled.did = "prompt sent"
    /\ Len(transcripts) = 3
    /\ ~is_conversation_ending(transcripts)
    /\ elapsed > 4 * AGENT_RESPONSE_TIMEOUT

\* the agent has been inactive for INACTIVITY_TIMEOUT, or the overall timeout
\* has elapsed
ExitDue ==
    /\ polling
    /\ \/ time_since_activity >= INACTIVITY_TIMEOUT
       \/ elapsed >= RunTimeout

\* C30: the polling loop always terminates: once the agent has been inactive
\* for INACTIVITY_TIMEOUT or the overall timeout has elapsed, the loop exits on
\* a later poll, also when sending a keep-alive prompt fails
C30_PollingLoopTerminates == ExitDue ~> ~polling
====
